---- MODULE Spec2Model ----
(***************************************************************************)
(* A model of the zdplasmapy kinetics engine: GlobalModel._ode_system and  *)
(* its EEDF result cache (src/src/global_model.py), the LoKI-B backend     *)
(* adapter (src/src/eedf_solver.py) and the expression compiler            *)
(* _build_lambda (src/src/chemistry_parser.py).                            *)
(*                                                                         *)
(* Conventions.                                                            *)
(*  - Text (formulas, species names, identifiers) is a sequence of         *)
(*    one-character strings, so that splitting, suffix matching and        *)
(*    textual replacement are computed the way the Python code does.       *)
(*  - A float is a record [k, v]: k = "fin" with the value v, k = "inf"    *)
(*    with the sign v, or k = "nan".  Finite values are integers: densities*)
(*    are counted in units of the floor 1e-10, simulation time in units of *)
(*    half the trigger tolerance (1e-9 s = Tol units).                     *)
(***************************************************************************)
EXTENDS Integers, Sequences, FiniteSets, TLC

VARIABLES
    eedf_enabled,       \* self.eedf_enabled
    eedf_backend,       \* self.eedf_backend / mdef['eedf']['backend']
    eedf_timestamps,    \* self.eedf_timestamps (a list of times)
    debug,              \* self.debug
    eedf_results,       \* self.eedf_results: timestamp -> response
    debug_step_counter, \* self.debug_step_counter
    pc,                 \* "idle", or "subprocess" while _ode_system is blocked in subprocess.run
    frame,              \* the locals of the _ode_system call in progress (t, y, ts, time-out)
    invoked,            \* the timestamps run_eedf was called for, in the current/last evaluation
    last_run,           \* what the last LoKIBackend.run found (binary, exit status, output files)
    ret,                \* how the last _ode_system call ended (value, NaN sentinel, exception)
    rate_src,           \* per reaction: where the rate coefficient of the last evaluation came from
    diag,               \* the diagnostics the last evaluation printed
    expr,               \* the argument of _build_lambda
    compiled,           \* what _build_lambda did with it: the callable, or the ValueError
    fn_result,          \* how the last call of the callable ended
    ctx,                \* the context p of that call
    mdef,               \* the model definition handed to GlobalModel(...)
    written,            \* the reactions of mdef as their author meant them: terms of (coefficient, species)
    model,              \* the GlobalModel constructed from mdef: species, matrices, warnings
    chem_entry,         \* an entry of chem['species'] in a chemistry file
    loaded,             \* what load_chemistry did with it: its masses, or the ValueError
    sol_y,              \* the state vector of an integration of the ionization-only case
    sol_prev,           \* the state vector before the last solver step
    sol_dy,             \* the derivatives _ode_system returned for the last solver step
    initial_values,     \* mdef['initial_values']: the settings (p, pressure, Te_eV) and the seeded densities
    run_pc,             \* where run() is: not called, integrating, returned, or the exception it raised
    y0,                 \* y0_final, the vector get_initial_conditions returned
    results,            \* self.results
    flow_mode,          \* which _ode_system is evaluated: the pressure-controlled flow of src/src/global_model.py, or the residence-time flow of src/global_model.py
    flow_parameters,    \* mdef['flow_parameters'], with the volume of mdef['geometry'] and the pressure of mdef['initial_values']
    flow_sinks,         \* per species, the pumping loss the last evaluation took from dY_dt
    flow_sources,       \* per species, the inflow the last evaluation added to dY_dt
    chemistry_files,    \* the chemistry files of config['chemistry_files'], in their configured order, each as yaml.safe_load reads it
    built,              \* what build_model_definition returned: the model definition, or the exception
    table_files,        \* the loki_table_<hash>.npz files of the cache directory: cache key -> the table saved, or a file that does not load
    output_files,       \* the loki_input_<hash>.out files of the cache directory: (reaction, cross-section file, Te) -> the rate coefficient the executable wrote
    last_build,         \* the last build_rate_function call: its arguments, whether its table file was there before it, the runs of the executable, the write of the table file, and what it returned
    params              \* the evaluation context of the last _ode_system call: Te_eV, densities, Y, t, na

vars == << eedf_enabled, eedf_backend, eedf_timestamps, debug, eedf_results,
           debug_step_counter, pc, frame, invoked, last_run, ret, rate_src, diag,
           expr, compiled, fn_result, ctx, mdef, written, model, chem_entry, loaded,
           sol_y, sol_prev, sol_dy,
           initial_values, run_pc, y0, results,
           flow_mode, flow_parameters, flow_sinks, flow_sources,
           chemistry_files, built,
           table_files, output_files, last_build,
           params >>

engineVars == << eedf_enabled, eedf_backend, eedf_timestamps, debug, eedf_results,
                 debug_step_counter, pc, frame, invoked, last_run, ret, rate_src, diag >>

compilerVars == << expr, compiled, fn_result, ctx >>

constructionVars == << mdef, written, model >>

loaderVars == << chem_entry, loaded >>

solverVars == << sol_y, sol_prev, sol_dy >>

runVars == << initial_values, run_pc, y0, results >>

flowVars == << flow_mode, flow_parameters, flow_sinks, flow_sources >>

builderVars == << chemistry_files, built >>

tableVars == << table_files, output_files, last_build >>

contextVars == << params >>

----------------------------------------------------------------------------
(* Bounds of the model *)

\* simulation times are 0..MaxTime
MaxTime == 3
\* completed evaluations after which no further evaluation is started
MaxSteps == 2
\* number literals with more digits than this have an untracked value
MaxDigits == 6

(* Program constants *)

\* the trigger tolerance 1e-9 s, in time units (one unit is 0.5e-9 s)
Tol == 2
\* the density / energy floor 1e-10, in density units
Floor == 1
\* the missing-process warning is printed when debug_step_counter % 100 = 0
WarnEvery == 100

----------------------------------------------------------------------------
(* Generic helpers *)

Abs(x) == IF x < 0 THEN -x ELSE x

Range(s) == { s[i] : i \in DOMAIN s }

SetMax(S) == CHOOSE x \in S : \A y \in S : y <= x

SetMin(S) == CHOOSE x \in S : \A y \in S : x <= y

RECURSIVE SumSeq(_)
SumSeq(s) == IF s = << >> THEN 0 ELSE Head(s) + SumSeq(Tail(s))

----------------------------------------------------------------------------
(* Floats: IEEE arithmetic on finite values, infinities and NaN *)

Fin(n) == [k |-> "fin", v |-> n]
NaN == [k |-> "nan", v |-> 0]
PInf == [k |-> "inf", v |-> 1]
NInf == [k |-> "inf", v |-> -1]

IsFinite(x) == x.k = "fin"

Sign(n) == IF n > 0 THEN 1 ELSE IF n < 0 THEN -1 ELSE 0

FNeg(x) == IF x.k = "nan" THEN NaN ELSE [k |-> x.k, v |-> -x.v]

FAdd(x, y) ==
    IF x.k = "nan" \/ y.k = "nan" THEN NaN
    ELSE IF x.k = "inf" /\ y.k = "inf" THEN (IF x.v = y.v THEN x ELSE NaN)
    ELSE IF x.k = "inf" THEN x
    ELSE IF y.k = "inf" THEN y
    ELSE Fin(x.v + y.v)

FSub(x, y) == FAdd(x, FNeg(y))

FMul(x, y) ==
    IF x.k = "nan" \/ y.k = "nan" THEN NaN
    ELSE IF x.k = "fin" /\ y.k = "fin" THEN Fin(x.v * y.v)
    ELSE IF Sign(x.v) * Sign(y.v) = 0 THEN NaN     \* inf * 0
    ELSE [k |-> "inf", v |-> Sign(x.v) * Sign(y.v)]

\* x ** n for a float x and an exponent n >= 1 (a reactant coefficient)
RECURSIVE FPow(_, _)
FPow(x, n) == IF n <= 1 THEN x ELSE FMul(x, FPow(x, n - 1))

RECURSIVE FSum(_)
FSum(s) == IF s = << >> THEN Fin(0) ELSE FAdd(Head(s), FSum(Tail(s)))

----------------------------------------------------------------------------
(* Text: Python str operations on sequences of characters *)

Digits == << "0", "1", "2", "3", "4", "5", "6", "7", "8", "9" >>

DigitVal(c) == (CHOOSE i \in DOMAIN Digits : Digits[i] = c) - 1

IsDigit(c) == c \in Range(Digits)

\* s.startswith(pat) at position i
MatchAt(s, pat, i) ==
    /\ i + Len(pat) - 1 <= Len(s)
    /\ \A j \in 1..Len(pat) : s[i + j - 1] = pat[j]

\* s.endswith(suf)
EndsWith(s, suf) == Len(suf) <= Len(s) /\ MatchAt(s, suf, Len(s) - Len(suf) + 1)

\* s.split(pat) for a non-empty pat
RECURSIVE Split(_, _)
Split(s, pat) ==
    LET at == { i \in 1..Len(s) : MatchAt(s, pat, i) }
    IN  IF at = {} THEN << s >>
        ELSE LET i == SetMin(at)
             IN  << SubSeq(s, 1, i - 1) >> \o Split(SubSeq(s, i + Len(pat), Len(s)), pat)

\* s.strip()
RECURSIVE Strip(_)
Strip(s) ==
    IF s = << >> THEN s
    ELSE IF Head(s) = " " THEN Strip(Tail(s))
    ELSE IF s[Len(s)] = " " THEN Strip(SubSeq(s, 1, Len(s) - 1))
    ELSE s

\* float(s) for the coefficient strings the model uses: a non-empty string of
\* digits is its value, anything else raises ValueError (here: -1)
RECURSIVE DigitsValue(_)
DigitsValue(s) ==
    IF s = << >> THEN 0 ELSE 10 * DigitsValue(SubSeq(s, 1, Len(s) - 1)) + DigitVal(s[Len(s)])

ParseFloat(s) ==
    IF s # << >> /\ \A i \in DOMAIN s : IsDigit(s[i]) THEN DigitsValue(s) ELSE -1

----------------------------------------------------------------------------
(* Expression text: str.replace and the tokens of a Python expression *)

\* s.replace(old, new): the occurrences of old, left to right, not overlapping
RECURSIVE Replace(_, _, _)
Replace(s, old, new) ==
    LET at == { i \in 1..Len(s) : MatchAt(s, old, i) }
    IN  IF at = {} THEN s
        ELSE LET i == SetMin(at)
             IN  SubSeq(s, 1, i - 1) \o new \o Replace(SubSeq(s, i + Len(old), Len(s)), old, new)

\* the lookup of the gas temperature in the place of the electron temperature
TeLookupAsGas == << "p", "[", "'", "T", "g", "_", "K", "'", "]" >>

\* "p['Te_eV']" and "p['Tg_K']"
TeLookup == << "p", "[", "'", "T", "e", "_", "e", "V", "'", "]" >>
TgLookup == << "p", "[", "'", "T", "g", "_", "K", "'", "]" >>

\* expr_str.replace('Te', "p['Te_eV']").replace('Tg', "p['Tg_K']")
Processed(expr_str) ==
    Replace(Replace(expr_str, << "T", "e" >>, TeLookup), << "T", "g" >>, TgLookup)

Letters ==
    { "a", "b", "c", "d", "e", "f", "g", "h", "i", "j", "k", "l", "m", "n", "o", "p", "q",
      "r", "s", "t", "u", "v", "w", "x", "y", "z", "A", "B", "C", "D", "E", "F", "G", "H",
      "I", "J", "K", "L", "M", "N", "O", "P", "Q", "R", "S", "T", "U", "V", "W", "X", "Y",
      "Z", "_" }

IsNameStart(c) == c \in Letters
IsNameChar(c) == c \in Letters \/ IsDigit(c)

\* words that are not identifiers, so that an expression with one of them
\* where an operand is expected is a SyntaxError
Keywords ==
    { << "i", "m", "p", "o", "r", "t" >>, << "i", "f" >>, << "e", "l", "s", "e" >>,
      << "f", "o", "r" >>, << "i", "n" >>, << "a", "n", "d" >>, << "o", "r" >>,
      << "f", "r", "o", "m" >>, << "a", "s" >> }

TwoCharOps == { << "*", "*" >>, << "/", "/" >>, << ">", "=" >>, << "<", "=" >>,
                << "=", "=" >>, << "!", "=" >> }
OneCharOps == { "+", "-", "*", "/", "%", "<", ">", "(", ")", "[", "]", ",", ".", ":" }

\* the number of digits from position i of s on
RECURSIVE DigitRun(_, _)
DigitRun(s, i) == IF i <= Len(s) /\ IsDigit(s[i]) THEN 1 + DigitRun(s, i + 1) ELSE 0

\* the number of identifier characters from position i of s on
RECURSIVE NameRun(_, _)
NameRun(s, i) == IF i <= Len(s) /\ IsNameChar(s[i]) THEN 1 + NameRun(s, i + 1) ELSE 0

\* the position of the quote that closes a string opened with q before
\* position i (0: the string is not closed)
ClosingQuote(s, i, q) ==
    LET at == { j \in i..Len(s) : s[j] = q } IN IF at = {} THEN 0 ELSE SetMin(at)

\* the position after the optional fraction of a number, j being the
\* position after its integer digits
FractionEnd(s, j) ==
    IF j <= Len(s) /\ s[j] = "." THEN j + 1 + DigitRun(s, j + 1) ELSE j

\* the position after the digits of an exponent that start at position d
\* (0: there is no digit)
ExponentEnd(s, d) == IF d <= Len(s) /\ IsDigit(s[d]) THEN d + DigitRun(s, d) ELSE 0

\* the position after the optional exponent of a number, k being the
\* position after its mantissa (0: the exponent has no digits)
MantissaEnd(s, k) ==
    IF k <= Len(s) /\ s[k] \in { "e", "E" }
    THEN ExponentEnd(s, IF k + 1 <= Len(s) /\ s[k + 1] \in { "+", "-" } THEN k + 2 ELSE k + 1)
    ELSE k

\* the position after the number literal at position i: digits, an optional
\* fraction, an optional exponent (0: the literal is malformed)
NumberEnd(s, i) == MantissaEnd(s, FractionEnd(s, i + DigitRun(s, i)))

Token(k, s, next) == [k |-> k, s |-> s, next |-> next]

\* a number must not run into an identifier
NumberToken(s, j, end) ==
    IF end = 0 \/ (end <= Len(s) /\ IsNameStart(s[end])) THEN Token("bad", << s[j] >>, j)
    ELSE Token("num", SubSeq(s, j, end - 1), end)

\* a string ends at the quote it began with
StringToken(s, j, close) ==
    IF close = 0 THEN Token("bad", << s[j] >>, j)
    ELSE Token("str", SubSeq(s, j + 1, close - 1), close + 1)

\* the token of s that starts at position j, with the position after it; a
\* character no token starts with, an open string or a malformed number
\* gives a "bad" token
TokenFrom(s, j) ==
    IF j > Len(s) THEN Token("end", << >>, j)
    ELSE IF IsDigit(s[j]) THEN NumberToken(s, j, NumberEnd(s, j))
    ELSE IF IsNameStart(s[j]) THEN Token("name", SubSeq(s, j, j + NameRun(s, j) - 1), j + NameRun(s, j))
    ELSE IF s[j] \in { "'", "\"" } THEN StringToken(s, j, ClosingQuote(s, j + 1, s[j]))
    ELSE IF j < Len(s) /\ << s[j], s[j + 1] >> \in TwoCharOps
    THEN Token("op", << s[j], s[j + 1] >>, j + 2)
    ELSE IF s[j] \in OneCharOps THEN Token("op", << s[j] >>, j + 1)
    ELSE Token("bad", << s[j] >>, j)

\* the number of spaces from position i of s on
RECURSIVE SpaceRun(_, _)
SpaceRun(s, i) == IF i <= Len(s) /\ s[i] = " " THEN 1 + SpaceRun(s, i + 1) ELSE 0

\* the token at position i, or after the spaces there
TokenAt(s, i) == TokenFrom(s, i + SpaceRun(s, i))
----------------------------------------------------------------------------
(* Python values and the syntax tree of an expression (module ast) *)

\* a finite float whose value the model does not track (it is no integer, or
\* it is too large)
Untracked == [k |-> "real", v |-> 0]
\* an int (a float of the same value is Fin(n))
IntVal(n) == [k |-> "int", v |-> n]
Str(s) == [k |-> "str", v |-> s]
Dict(d) == [k |-> "dict", v |-> d]
Builtin(name) == [k |-> "builtin", v |-> name]
MathModule == [k |-> "module", v |-> 0]
ListOf(kind, elts) == [k |-> kind, v |-> elts]
None == [k |-> "None", v |-> 0]

IsNumber(x) == x.k \in { "int", "fin", "inf", "nan", "real" }

\* float(x) for a number x
ToFloat(x) == IF x.k = "int" THEN Fin(x.v) ELSE x

RECURSIVE Pow10(_)
Pow10(n) == IF n = 0 THEN 1 ELSE 10 * Pow10(n - 1)

\* the value of the number literal s: digits, an optional fraction, an optional
\* exponent.  Digits alone are an int, anything else is a float.  A value of
\* 1e309 or more is inf (the largest float is about 1.8e308); a value that is
\* no integer of at most MaxDigits digits is untracked.
NumValue(s) ==
    LET int == DigitRun(s, 1)
        hasDot == int < Len(s) /\ s[int + 1] = "."
        frac == IF hasDot THEN DigitRun(s, int + 2) ELSE 0
        m == int + (IF hasDot THEN 1 + frac ELSE 0)
        hasExp == m < Len(s)
        signLen == IF hasExp /\ s[m + 2] \in { "+", "-" } THEN 1 ELSE 0
        neg == hasExp /\ s[m + 2] = "-"
        expDigits == IF hasExp THEN SubSeq(s, m + 2 + signLen, Len(s)) ELSE << >>
        exp == IF Len(expDigits) > 3 THEN 1000 ELSE DigitsValue(expDigits)
        digits == SubSeq(s, 1, int) \o SubSeq(s, int + 2, int + 1 + frac)
        nonzero == { i \in DOMAIN digits : digits[i] # "0" }
        magnitude == exp + int - SetMin(nonzero)
        fracZero == \A i \in (int + 2)..(int + 1 + frac) : s[i] = "0"
    IN  IF int = Len(s)
        THEN (IF int > MaxDigits THEN Untracked ELSE IntVal(DigitsValue(s)))
        ELSE IF nonzero = {} THEN Fin(0)
        ELSE IF ~neg /\ magnitude > 308 THEN PInf
        ELSE IF (neg /\ exp > 0) \/ ~fracZero \/ int + exp > MaxDigits THEN Untracked
        ELSE Fin(DigitsValue(SubSeq(s, 1, int)) * Pow10(exp))

Name(id) == [node |-> "Name", id |-> id]
Constant(value) == [node |-> "Constant", value |-> value]
Operator(name) == [node |-> name]
BinOp(left, op, right) == [node |-> "BinOp", left |-> left, op |-> Operator(op), right |-> right]
UnaryOp(op, operand) == [node |-> "UnaryOp", op |-> Operator(op), operand |-> operand]
Compare(left, ops, comparators) ==
    [node |-> "Compare", left |-> left, ops |-> ops, comparators |-> comparators]
Call(func, args) == [node |-> "Call", func |-> func, args |-> args]
Attribute(value, attr) == [node |-> "Attribute", value |-> value, attr |-> attr]
Subscript(value, slice) == [node |-> "Subscript", value |-> value, slice |-> slice]
TupleNode(elts) == [node |-> "Tuple", elts |-> elts]
ListNode(elts) == [node |-> "List", elts |-> elts]
Expression(body) == [node |-> "Expression", body |-> body]

BinOpName(s) ==
    CASE s = << "+" >> -> "Add" [] s = << "-" >> -> "Sub" [] s = << "*" >> -> "Mult"
      [] s = << "/" >> -> "Div" [] s = << "%" >> -> "Mod" [] s = << "/", "/" >> -> "FloorDiv"
      [] s = << "*", "*" >> -> "Pow"

UnaryOpName(s) == IF s = << "-" >> THEN "USub" ELSE "UAdd"

CompareOpName(s) ==
    CASE s = << ">" >> -> "Gt" [] s = << "<" >> -> "Lt" [] s = << ">", "=" >> -> "GtE"
      [] s = << "<", "=" >> -> "LtE" [] s = << "=", "=" >> -> "Eq" [] s = << "!", "=" >> -> "NotEq"

\* ast.iter_child_nodes(node), in field order
iter_child_nodes(node) ==
    CASE node.node = "Expression" -> << node.body >>
      [] node.node = "BinOp" -> << node.left, node.op, node.right >>
      [] node.node = "UnaryOp" -> << node.op, node.operand >>
      [] node.node = "Compare" -> << node.left >> \o node.ops \o node.comparators
      [] node.node = "Call" -> << node.func >> \o node.args
      [] node.node = "Attribute" -> << node.value >>
      [] node.node = "Subscript" -> << node.value, node.slice >>
      [] node.node \in { "Tuple", "List" } -> node.elts
      [] OTHER -> << >>
----------------------------------------------------------------------------
(* ast.parse(processed, mode='eval'): a recursive-descent parser of the      *)
(* expressions: comparisons, + -, * / % //, unary + -, **, calls,            *)
(* subscripts, attributes, names, numbers, strings, tuples and lists         *)

IsOp(tok, chars) == tok.k = "op" /\ tok.s = chars

\* tok closes a list that ends with the bracket close, or with the text
IsClose(tok, close) == IF close = << >> THEN tok.k = "end" ELSE IsOp(tok, close)

IsCompareOp(tok) ==
    tok.k = "op" /\ tok.s \in { << ">" >>, << "<" >>, << ">", "=" >>, << "<", "=" >>,
                               << "=", "=" >>, << "!", "=" >> }

IsUnaryOp(tok) == tok.k = "op" /\ tok.s \in { << "+" >>, << "-" >> }

\* the binary operators of a level of precedence: 1 for + -, 2 for * / % //
IsBinaryOp(tok, level) ==
    /\ tok.k = "op"
    /\ tok.s \in (IF level = 1 THEN { << "+" >>, << "-" >> }
                  ELSE { << "*" >>, << "/" >>, << "%" >>, << "/", "/" >> })

\* the result of parsing an expression: the node and the position after it
Ok(node, next) == [ok |-> TRUE, node |-> node, next |-> next]
Fail(i) == [ok |-> FALSE, node |-> Operator("none"), next |-> i]

\* the result of parsing a list: the expressions, the number of commas, the
\* position after the closing bracket
ListOk(elts, commas, next) == [ok |-> TRUE, elts |-> elts, commas |-> commas, next |-> next]
ListFail(i) == [ok |-> FALSE, elts |-> << >>, commas |-> 0, next |-> i]
Cons(e, rest) ==
    [ok |-> rest.ok, elts |-> << e.node >> \o rest.elts, commas |-> 1 + rest.commas,
     next |-> rest.next]

\* what a list between brackets or at the top level denotes: the expression
\* itself, or a tuple when there is a comma or there is no expression
ExprOrTuple(list) ==
    IF Len(list.elts) = 1 /\ list.commas = 0 THEN list.elts[1] ELSE TupleNode(list.elts)

\* the result of parsing the right-hand sides of a comparison
ComparatorsOk(op, r) ==
    [ok |-> TRUE, ops |-> << Operator(CompareOpName(op.s)) >>, comparators |-> << r.node >>,
     next |-> r.next]
ComparatorsFail(i) == [ok |-> FALSE, ops |-> << >>, comparators |-> << >>, next |-> i]
ConsComparator(op, r, more) ==
    [ok |-> more.ok, ops |-> << Operator(CompareOpName(op.s)) >> \o more.ops,
     comparators |-> << r.node >> \o more.comparators, next |-> more.next]

MakeCompare(i, l, rest) ==
    IF ~rest.ok THEN Fail(i) ELSE Ok(Compare(l.node, rest.ops, rest.comparators), rest.next)
MakeUnary(tok, o) ==
    IF ~o.ok THEN o ELSE Ok(UnaryOp(UnaryOpName(tok.s), o.node), o.next)
MakePower(b, e) == IF ~e.ok THEN e ELSE Ok(BinOp(b.node, "Pow", e.node), e.next)
Parenthesized(i, list) == IF ~list.ok THEN Fail(i) ELSE Ok(ExprOrTuple(list), list.next)
Bracketed(i, list) == IF ~list.ok THEN Fail(i) ELSE Ok(ListNode(list.elts), list.next)

RECURSIVE ParseList(_, _, _)
RECURSIVE ParseTest(_, _)
RECURSIVE ParseComparators(_, _)
RECURSIVE ParseBinary(_, _, _)
RECURSIVE BinaryRest(_, _, _)
RECURSIVE ParseFactor(_, _)
RECURSIVE ParseTrailers(_, _)

\* a name, a number, a string, a parenthesized expression or tuple, a list
ParseAtom(s, i, tok) ==
    IF tok.k = "name"
    THEN (IF tok.s \in Keywords THEN Fail(i) ELSE Ok(Name(tok.s), tok.next))
    ELSE IF tok.k = "num" THEN Ok(Constant(NumValue(tok.s)), tok.next)
    ELSE IF tok.k = "str" THEN Ok(Constant(Str(tok.s)), tok.next)
    ELSE IF IsOp(tok, << "(" >>) THEN Parenthesized(i, ParseList(s, tok.next, << ")" >>))
    ELSE IF IsOp(tok, << "[" >>) THEN Bracketed(i, ParseList(s, tok.next, << "]" >>))
    ELSE Fail(i)

AfterCall(s, a, args) ==
    IF ~args.ok THEN Fail(a.next)
    ELSE ParseTrailers(s, Ok(Call(a.node, args.elts), args.next))

AfterSubscript(s, a, key) ==
    IF ~key.ok \/ key.elts = << >> THEN Fail(a.next)
    ELSE ParseTrailers(s, Ok(Subscript(a.node, ExprOrTuple(key)), key.next))

AfterDot(s, a, attr) ==
    IF attr.k # "name" \/ attr.s \in Keywords THEN Fail(a.next)
    ELSE ParseTrailers(s, Ok(Attribute(a.node, attr.s), attr.next))

TrailerAt(s, a, tok) ==
    IF IsOp(tok, << "(" >>) THEN AfterCall(s, a, ParseList(s, tok.next, << ")" >>))
    ELSE IF IsOp(tok, << "[" >>) THEN AfterSubscript(s, a, ParseList(s, tok.next, << "]" >>))
    ELSE IF IsOp(tok, << "." >>) THEN AfterDot(s, a, TokenAt(s, tok.next))
    ELSE a

\* the calls, subscripts and attribute accesses that follow the operand a
ParseTrailers(s, a) == IF ~a.ok THEN a ELSE TrailerAt(s, a, TokenAt(s, a.next))

PowerOp(s, b, tok) ==
    IF ~IsOp(tok, << "*", "*" >>) THEN b ELSE MakePower(b, ParseFactor(s, tok.next))

\* an operand with its trailers, b, and the power it may be raised to
ParsePower(s, b) == IF ~b.ok THEN b ELSE PowerOp(s, b, TokenAt(s, b.next))

FactorFrom(s, i, tok) ==
    IF IsUnaryOp(tok) THEN MakeUnary(tok, ParseFactor(s, tok.next))
    ELSE ParsePower(s, ParseTrailers(s, ParseAtom(s, i, tok)))

\* unary + and -, which bind less than **
ParseFactor(s, i) == FactorFrom(s, i, TokenAt(s, i))

BinaryJoin(s, level, l, tok, r) ==
    IF ~r.ok THEN r
    ELSE BinaryRest(s, level, Ok(BinOp(l.node, BinOpName(tok.s), r.node), r.next))

BinaryOpAt(s, level, l, tok) ==
    IF IsBinaryOp(tok, level)
    THEN BinaryJoin(s, level, l, tok, ParseBinary(s, tok.next, level + 1))
    ELSE l

\* the operators of the level and their right operands that follow l: the
\* operators associate to the left
BinaryRest(s, level, l) == IF ~l.ok THEN l ELSE BinaryOpAt(s, level, l, TokenAt(s, l.next))

\* an arithmetic expression of a level of precedence (1: + -, 2: * / % //)
ParseBinary(s, i, level) ==
    IF level > 2 THEN ParseFactor(s, i)
    ELSE BinaryRest(s, level, ParseBinary(s, i, level + 1))

ComparatorsMore(s, op, r, tok) ==
    IF IsCompareOp(tok) THEN ConsComparator(op, r, ParseComparators(s, r.next))
    ELSE ComparatorsOk(op, r)

ComparatorsAfter(s, i, op, r) ==
    IF ~r.ok THEN ComparatorsFail(i) ELSE ComparatorsMore(s, op, r, TokenAt(s, r.next))

ComparatorsFrom(s, i, op) == ComparatorsAfter(s, i, op, ParseBinary(s, op.next, 1))

\* the operators and right operands of a comparison, the token at i being
\* the first operator
ParseComparators(s, i) == ComparatorsFrom(s, i, TokenAt(s, i))

TestOp(s, i, l, tok) ==
    IF ~IsCompareOp(tok) THEN l ELSE MakeCompare(i, l, ParseComparators(s, l.next))

TestAfter(s, i, l) == IF ~l.ok THEN l ELSE TestOp(s, i, l, TokenAt(s, l.next))

\* an expression: an arithmetic expression, or a comparison of several
ParseTest(s, i) == TestAfter(s, i, ParseBinary(s, i, 1))

ListSep(s, i, close, e, tok) ==
    IF IsClose(tok, close) THEN ListOk(<< e.node >>, 0, tok.next)
    ELSE IF IsOp(tok, << "," >>) THEN Cons(e, ParseList(s, tok.next, close))
    ELSE ListFail(i)

ListAfter(s, i, close, e) ==
    IF ~e.ok THEN ListFail(i) ELSE ListSep(s, i, close, e, TokenAt(s, e.next))

ListFrom(s, i, close, tok) ==
    IF IsClose(tok, close) THEN ListOk(<< >>, 0, tok.next)
    ELSE ListAfter(s, i, close, ParseTest(s, i))

\* expressions separated by commas, up to the bracket close (or, close being
\* empty, to the end of the text)
ParseList(s, i, close) == ListFrom(s, i, close, TokenAt(s, i))

ParseResult(list) ==
    IF ~list.ok \/ list.elts = << >> THEN [ok |-> FALSE, tree |-> Expression(Operator("none"))]
    ELSE [ok |-> TRUE, tree |-> Expression(ExprOrTuple(list))]

\* ast.parse(text, mode='eval'): the tree, or a SyntaxError
Parse(text) == ParseResult(ParseList(text, 1, << >>))
----------------------------------------------------------------------------
(* _build_lambda: the validation of the tree *)

NameP == << "p" >>
NameMath == << "m", "a", "t", "h" >>
NameGet == << "g", "e", "t" >>
NameExp == << "e", "x", "p" >>
NameSqrt == << "s", "q", "r", "t" >>
NameLog == << "l", "o", "g" >>

\* the keys of allowed_func_names
allowed_func_names == { NameExp, NameSqrt, NameLog }

allowed_nodes ==
    { "Expression", "BinOp", "UnaryOp", "Pow", "Add", "Sub", "Mult", "Div", "USub",
      "Constant", "Name", "Load", "Subscript", "Call", "Attribute", "Tuple", "List" }

IsName(node, id) == node.node = "Name" /\ node.id = id

\* a name check that lets every identifier through
AnyNameAllowed(id) == TRUE

\* node.id in {"p", "math"} or node.id in allowed_func_names
NameAllowed(id) == id \in { NameP, NameMath } \/ id \in allowed_func_names

\* the checks of a Call node: "" or the message of the ValueError
CallError(node) ==
    IF node.func.node = "Attribute"
    THEN IF IsName(node.func.value, NameP) /\ node.func.attr = NameGet THEN ""
         ELSE IF IsName(node.func.value, NameMath)
         THEN (IF node.func.attr \notin allowed_func_names
               THEN "math.<attr> not whitelisted" ELSE "")
         ELSE "Only p.get() and math.<func>() calls allowed"
    ELSE IF node.func.node = "Name"
    THEN (IF node.func.id \notin allowed_func_names THEN "Function not whitelisted" ELSE "")
    ELSE "Unsupported callable form"

\* root = node.value; while isinstance(root, ast.Subscript): root = root.value
RECURSIVE SubscriptRoot(_)
SubscriptRoot(node) ==
    IF node.value.node = "Subscript" THEN SubscriptRoot(node.value) ELSE node.value

\* _validate(node, parent): "" or the message of the ValueError it raises;
\* is_func tells whether node is the func of its parent Call node
RECURSIVE _validate(_, _)
RECURSIVE ValidateChildren(_, _)
_validate(node, is_func) ==
    IF node.node \notin allowed_nodes THEN "Disallowed syntax"
    ELSE IF node.node = "Name" /\ ~NameAllowed(node.id) THEN "Disallowed name"
    ELSE IF node.node = "Attribute" /\ ~is_func
    THEN "Attribute access only allowed in function calls"
    ELSE IF node.node = "Call" /\ CallError(node) # "" THEN CallError(node)
    ELSE IF node.node = "Subscript" /\ ~IsName(SubscriptRoot(node), NameP)
    THEN "Only p[...] chained subscripts allowed"
    ELSE ValidateChildren(iter_child_nodes(node), node.node = "Call")

\* the loop over the children: the first error; first_is_func tells whether
\* the first of them is the func of a Call
ValidateChildren(children, first_is_func) ==
    IF children = << >> THEN ""
    ELSE LET e == _validate(Head(children), first_is_func)
         IN  IF e # "" THEN e ELSE ValidateChildren(Tail(children), FALSE)

NoTree == Expression(Operator("none"))

NotCompiled == [status |-> "none", reason |-> "", tree |-> NoTree]
Rejected(reason) == [status |-> "ValueError", reason |-> reason, tree |-> NoTree]
Callable(tree) == [status |-> "ok", reason |-> "", tree |-> tree]

\* an argument of _build_lambda: a string, or a number
StrExpr(text) == [kind |-> "str", text |-> text, num |-> Fin(0)]
NumExpr(num) == [kind |-> "num", text |-> << >>, num |-> num]

\* _validate(tree), then compile: the callable, or the ValueError
Validated(tree, error) == IF error # "" THEN Rejected(error) ELSE Callable(tree)

\* ast.parse(processed, mode='eval'), a SyntaxError becoming a ValueError
Parsed(parsed) ==
    IF ~parsed.ok THEN Rejected("Invalid expression syntax")
    ELSE Validated(parsed.tree, _validate(parsed.tree, FALSE))

\* _build_lambda(expr_str, safe_globals): the callable, or the ValueError
_build_lambda(expr_str) ==
    IF expr_str.kind = "num" THEN Callable(Expression(Constant(expr_str.num)))
    ELSE Parsed(Parse(Processed(expr_str.text)))
----------------------------------------------------------------------------
(* _fn(p): the evaluation of a compiled expression in the context p *)

Returned(val) == [kind |-> "value", exc |-> "", val |-> val]
Raised(exc) == [kind |-> "raise", exc |-> exc, val |-> None]
NotCalled == [kind |-> "none", exc |-> "", val |-> None]

\* the float a number stands for in arithmetic with inf and nan: an
\* untracked value is taken as a positive one (it is never zero: it comes from
\* a literal, a division, a power or a function whose result is no integer)
Tracked(x) == IF x.k = "real" THEN Fin(1) ELSE x

IsZero(x) == x.k \in { "int", "fin" } /\ x.v = 0

\* x / y for floats, y not zero
FDiv(x, y) ==
    IF x.k = "nan" \/ y.k = "nan" THEN NaN
    ELSE IF x.k = "inf" /\ y.k = "inf" THEN NaN
    ELSE IF x.k = "inf" THEN [k |-> "inf", v |-> x.v * Sign(y.v)]
    ELSE IF y.k = "inf" THEN Fin(0)
    ELSE IF x.v % Abs(y.v) = 0 THEN Fin((x.v \div Abs(y.v)) * Sign(y.v))
    ELSE Untracked

\* x ** n for integers x and n >= 0
RECURSIVE Power(_, _)
Power(x, n) == IF n = 0 THEN 1 ELSE x * Power(x, n - 1)

\* left op right for two floats
FloatOp(op, x, y) ==
    IF op = "Div" /\ IsZero(y) THEN Raised("ZeroDivisionError")
    ELSE IF op = "Pow"
    THEN IF x.k = "fin" /\ y.k = "fin"
         THEN (IF y.v < 0 THEN (IF x.v = 0 THEN Raised("ZeroDivisionError")
                                ELSE Returned(Untracked))
               ELSE IF y.v > MaxDigits THEN Returned(Untracked)
               ELSE Returned(Fin(Power(x.v, y.v))))
         ELSE IF IsZero(y) \/ x = Fin(1) THEN Returned(Fin(1))
         ELSE IF IsZero(x) /\ y.k = "real" THEN Returned(Fin(0))
         ELSE IF x.k = "nan" \/ y.k = "nan" THEN Returned(NaN)
         ELSE Returned(Untracked)
    ELSE IF x.k = "real" \/ y.k = "real"
    THEN (IF op = "Mult" /\ (IsZero(x) \/ IsZero(y)) THEN Returned(Fin(0))
          ELSE IF x.k = "fin" \/ y.k = "fin" \/ x.k = y.k THEN Returned(Untracked)
          ELSE Returned(CASE op = "Add" -> FAdd(Tracked(x), Tracked(y))
                          [] op = "Sub" -> FSub(Tracked(x), Tracked(y))
                          [] op = "Mult" -> FMul(Tracked(x), Tracked(y))
                          [] op = "Div" -> FDiv(Tracked(x), Tracked(y))))
    ELSE Returned(CASE op = "Add" -> FAdd(x, y)
                    [] op = "Sub" -> FSub(x, y)
                    [] op = "Mult" -> FMul(x, y)
                    [] op = "Div" -> FDiv(x, y))

\* left op right for two numbers: the result of two ints is an int, but for
\* a division and a negative power
NumberOp(op, x, y) ==
    IF x.k = "int" /\ y.k = "int" /\ (op \in { "Add", "Sub", "Mult" } \/ (op = "Pow" /\ y.v >= 0))
    THEN (IF op = "Pow" /\ y.v > MaxDigits THEN Returned(Untracked)
          ELSE Returned(IntVal(CASE op = "Add" -> x.v + y.v
                                 [] op = "Sub" -> x.v - y.v
                                 [] op = "Mult" -> x.v * y.v
                                 [] op = "Pow" -> Power(x.v, y.v))))
    ELSE FloatOp(op, ToFloat(x), ToFloat(y))

\* s * n for a string, list or tuple s
RECURSIVE Repeat(_, _)
Repeat(s, n) == IF n <= 0 THEN << >> ELSE s \o Repeat(s, n - 1)

IsSequence(x) == x.k \in { "str", "list", "tuple" }

\* left op right: numbers, the concatenation of two strings, lists or tuples,
\* the repetition of one
BinaryOp(op, x, y) ==
    IF IsNumber(x) /\ IsNumber(y) THEN NumberOp(op, x, y)
    ELSE IF op = "Add" /\ IsSequence(x) /\ x.k = y.k THEN Returned(ListOf(x.k, x.v \o y.v))
    ELSE IF op = "Mult" /\ IsSequence(x) /\ y.k = "int"
    THEN Returned(ListOf(x.k, Repeat(x.v, y.v)))
    ELSE IF op = "Mult" /\ IsSequence(y) /\ x.k = "int"
    THEN Returned(ListOf(y.k, Repeat(y.v, x.v)))
    ELSE Raised("TypeError")

\* math.exp, math.sqrt, math.log of the arguments args
MathCall(f, args) ==
    IF f = NameLog /\ Len(args) = 2 /\ IsNumber(args[1]) /\ IsNumber(args[2])
    THEN (IF (ToFloat(args[1]).k = "fin" /\ args[1].v <= 0)
               \/ (ToFloat(args[2]).k = "fin" /\ args[2].v <= 0)
          THEN Raised("ValueError")
          ELSE IF ToFloat(args[2]) = Fin(1) THEN Raised("ZeroDivisionError")
          ELSE Returned(Untracked))
    ELSE IF Len(args) # 1 \/ ~IsNumber(args[1]) THEN Raised("TypeError")
    ELSE LET x == ToFloat(args[1])
         IN  IF x.k = "nan" THEN Returned(NaN)
             ELSE IF x.k = "real" THEN Returned(Untracked)
             ELSE IF x.k = "inf"
             THEN (IF x.v > 0 THEN Returned(PInf)
                   ELSE IF f = NameExp THEN Returned(Fin(0)) ELSE Raised("ValueError"))
             ELSE IF f = NameExp
             THEN (IF x.v = 0 THEN Returned(Fin(1))
                   ELSE IF x.v > 709 THEN Raised("OverflowError") ELSE Returned(Untracked))
             ELSE IF f = NameSqrt
             THEN (IF x.v < 0 THEN Raised("ValueError")
                   ELSE IF \E r \in 0..x.v : r * r = x.v
                   THEN Returned(Fin(CHOOSE r \in 0..x.v : r * r = x.v))
                   ELSE Returned(Untracked))
             ELSE (IF x.v <= 0 THEN Raised("ValueError")
                   ELSE IF x.v = 1 THEN Returned(Fin(0)) ELSE Returned(Untracked))

\* hash(key) does not raise
RECURSIVE Hashable(_)
Hashable(key) ==
    IF key.k \in { "dict", "list" } THEN FALSE
    ELSE IF key.k = "tuple" THEN \A i \in DOMAIN key.v : Hashable(key.v[i])
    ELSE TRUE

\* the dictionary d has the key: the dictionaries of a context have string keys
HasKey(d, key) == key.k = "str" /\ key.v \in DOMAIN d

\* p.get(*args)
DictGet(d, args) ==
    IF Len(args) \notin { 1, 2 } \/ ~Hashable(args[1]) THEN Raised("TypeError")
    ELSE IF HasKey(d, args[1]) THEN Returned(d[args[1].v])
    ELSE Returned(IF Len(args) = 2 THEN args[2] ELSE None)

\* value[key], value being a dictionary or a number of the context
GetItem(value, key) ==
    IF value.k # "dict" \/ ~Hashable(key) THEN Raised("TypeError")
    ELSE IF HasKey(value.v, key) THEN Returned(value.v[key.v])
    ELSE Raised("KeyError")

\* local_ctx = {**allowed_func_names, 'p': p, 'math': math}; no builtins
LookupName(id, p) ==
    IF id = NameP THEN Returned(Dict(p))
    ELSE IF id = NameMath THEN Returned(MathModule)
    ELSE IF id \in allowed_func_names THEN Returned(Builtin(id))
    ELSE Raised("NameError")

\* eval(code_obj, {'__builtins__': {}}, local_ctx) for a validated tree
RECURSIVE Eval(_, _)
RECURSIVE EvalAll(_, _)
Eval(node, p) ==
    CASE node.node = "Expression" -> Eval(node.body, p)
      [] node.node = "Constant" -> Returned(node.value)
      [] node.node = "Name" -> LookupName(node.id, p)
      [] node.node = "UnaryOp" ->
            LET x == Eval(node.operand, p)
            IN  IF x.kind = "raise" THEN x
                ELSE IF ~IsNumber(x.val) THEN Raised("TypeError")
                ELSE IF x.val.k = "real" THEN x
                ELSE IF x.val.k = "int" THEN Returned(IntVal(-x.val.v))
                ELSE Returned(FNeg(x.val))
      [] node.node = "BinOp" ->
            LET x == Eval(node.left, p)
                y == Eval(node.right, p)
            IN  IF x.kind = "raise" THEN x
                ELSE IF y.kind = "raise" THEN y
                ELSE BinaryOp(node.op.node, x.val, y.val)
      [] node.node = "Subscript" ->
            LET value == Eval(node.value, p)
                key == Eval(node.slice, p)
            IN  IF value.kind = "raise" THEN value
                ELSE IF key.kind = "raise" THEN key
                ELSE GetItem(value.val, key.val)
      [] node.node = "Call" ->
            LET args == EvalAll(node.args, p)
            IN  IF args.kind = "raise" THEN args
                ELSE IF node.func.node = "Name" THEN MathCall(node.func.id, args.val.v)
                ELSE IF IsName(node.func.value, NameMath)
                THEN MathCall(node.func.attr, args.val.v)
                ELSE DictGet(p, args.val.v)
      [] node.node \in { "Tuple", "List" } ->
            LET elts == EvalAll(node.elts, p)
            IN  IF elts.kind = "raise" THEN elts
                ELSE Returned(ListOf((IF node.node = "List" THEN "list" ELSE "tuple"),
                                     elts.val.v))

\* the values of the nodes, left to right, as a tuple; or the first exception
EvalAll(nodes, p) ==
    IF nodes = << >> THEN Returned(ListOf("tuple", << >>))
    ELSE LET x == Eval(Head(nodes), p)
             rest == EvalAll(Tail(nodes), p)
         IN  IF x.kind = "raise" THEN x
             ELSE IF rest.kind = "raise" THEN rest
             ELSE Returned(ListOf("tuple", << x.val >> \o rest.val.v))

\* _fn(p)
CallFn(fn, p) == Eval(fn.tree, p)

----------------------------------------------------------------------------
(* The chemistry of the modelled case: mdef['species'], mdef['reactions'] *)

\* mdef['species']: the background gas first, as get_initial_conditions expects
species == << << "A" >>, << "A", "+" >>, << "e" >> >>

num_species == Len(species)

\* "e + A -> A+ + 2e"
FormulaIonization == << "e", " ", "+", " ", "A", " ", "-", ">", " ", "A", "+", " ", "+", " ", "2", "e" >>
\* "e + A -> e + A"
FormulaElastic == << "e", " ", "+", " ", "A", " ", "-", ">", " ", "e", " ", "+", " ", "A" >>
\* "A+ -> A"
FormulaWall == << "A", "+", " ", "-", ">", " ", "A" >>

\* mdef['reactions']: an EEDF-driven reaction with a process identifier, an
\* EEDF-driven reaction without one, and a reaction with a compiled rate only
reactions == <<
    [formula |-> FormulaIonization, use_eedf |-> TRUE, process |-> "ion"],
    [formula |-> FormulaElastic, use_eedf |-> TRUE, process |-> ""],
    [formula |-> FormulaWall, use_eedf |-> FALSE, process |-> ""] >>

num_reactions == Len(reactions)

\* the index of name counted from the end of the list
SpeciesIndexReversed(self_species, name) ==
    Len(self_species) + 1 - SetMin({ i \in DOMAIN self_species : self_species[i] = name })

\* self.species.index(name)
SpeciesIndex(self_species, name) ==
    SetMin({ i \in DOMAIN self_species : self_species[i] = name })

\* s with its i-th element removed
RemoveAt(s, i) == SubSeq(s, 1, i - 1) \o SubSeq(s, i + 1, Len(s))

\* sorted(self.species, key=len, reverse=True): longest first, ties in list order
RECURSIVE SortedByLen(_)
SortedByLen(s) ==
    IF s = << >> THEN << >>
    ELSE LET longest == SetMax({ Len(s[i]) : i \in DOMAIN s })
             first == SetMin({ i \in DOMAIN s : Len(s[i]) = longest })
         IN  << s[first] >> \o SortedByLen(RemoveAt(s, first))

\* term[:-len(species_name)].strip()
CoeffStr(term, name) == Strip(SubSeq(term, 1, Len(term) - Len(name)))

\* a match that takes every term for one particle of the species it ends with
TermMatchUnit(self_species, term) ==
    LET sorted_species == SortedByLen(self_species)
        hits == { i \in DOMAIN sorted_species : EndsWith(term, sorted_species[i]) }
    IN  IF hits = {} THEN [found |-> FALSE, idx |-> 0, coeff |-> 0]
        ELSE [found |-> TRUE, idx |-> SpeciesIndex(self_species, sorted_species[SetMin(hits)]),
              coeff |-> 1]

\* the inner loop of _parse_formula: the first species, longest first, the
\* term ends with and whose prefix is empty or a number
TermMatch(self_species, term) ==
    LET sorted_species == SortedByLen(self_species)
        hits == { i \in DOMAIN sorted_species :
                    /\ EndsWith(term, sorted_species[i])
                    /\ \/ CoeffStr(term, sorted_species[i]) = << >>
                       \/ ParseFloat(CoeffStr(term, sorted_species[i])) >= 0 }
    IN  IF hits = {} THEN [found |-> FALSE, idx |-> 0, coeff |-> 0]
        ELSE LET name == sorted_species[SetMin(hits)]
             IN  [found |-> TRUE, idx |-> SpeciesIndex(self_species, name),
                  coeff |-> IF CoeffStr(term, name) = << >> THEN 1
                            ELSE ParseFloat(CoeffStr(term, name))]

\* formula_part.split('+'), stripped: the split the parser had before its correction
TermsSplitOnPlus(formula_part) ==
    LET parts == Split(formula_part, << "+" >>)
    IN  [i \in DOMAIN parts |-> Strip(parts[i])]

\* [s.strip() for s in formula_part.split(' + ')]
Terms(formula_part) ==
    LET parts == Split(formula_part, << " ", "+", " " >>)
    IN  [i \in DOMAIN parts |-> Strip(parts[i])]

\* the matches of the terms: what the loop over terms finds, term by term
TermMatches(self_species, terms) ==
    [i \in DOMAIN terms |->
        IF terms[i] = << >> THEN [found |-> TRUE, idx |-> 0, coeff |-> 0]
        ELSE TermMatch(self_species, terms[i])]

\* the stoich_vector after the loop: the coefficients of the matched terms, summed
StoichVector(self_species, matches) ==
    [s \in DOMAIN self_species |->
        SumSeq([i \in DOMAIN matches |->
                  IF matches[i].found /\ matches[i].idx = s THEN matches[i].coeff ELSE 0])]

\* GlobalModel._parse_formula: the coefficient vector of one side of a formula
\* (an unmatched term only prints a warning)
_parse_formula(self_species, formula_part) ==
    StoichVector(self_species, TermMatches(self_species, Terms(formula_part)))

\* the terms of formula_part _parse_formula warns about
UnparsedTerms(self_species, formula_part) ==
    { t \in Range(Terms(formula_part)) : t # << >> /\ ~TermMatch(self_species, t).found }

\* GlobalModel._create_stoich_matrices: left_matrix, right_matrix and their
\* difference, for the species and the reactions of a model definition
left_matrix_of(model_definition) ==
    [r \in DOMAIN model_definition.reactions |->
        _parse_formula(model_definition.species, Split(model_definition.reactions[r].formula, << "-", ">" >>)[1])]

\* a right_matrix that is left empty: no product is entered
RightMatrixEmpty(model_definition) ==
    [r \in DOMAIN model_definition.reactions |-> [s \in DOMAIN model_definition.species |-> 0]]

right_matrix_of(model_definition) ==
    [r \in DOMAIN model_definition.reactions |->
        _parse_formula(model_definition.species, Split(model_definition.reactions[r].formula, << "-", ">" >>)[2])]

\* the sum of the two matrices, in the place of their difference
MatrixSum(right, left) ==
    [r \in DOMAIN right |-> [s \in DOMAIN right[r] |-> right[r][s] + left[r][s]]]

\* net_matrix = right_matrix - left_matrix
MatrixDifference(right, left) ==
    [r \in DOMAIN right |-> [s \in DOMAIN right[r] |-> right[r][s] - left[r][s]]]

_create_stoich_matrices(model_definition) ==
    [net |-> MatrixDifference(right_matrix_of(model_definition), left_matrix_of(model_definition)),
     left |-> left_matrix_of(model_definition)]

\* reactants_str, products_str = formula.split('->') raises ValueError unless
\* the formula has exactly one arrow
Unpackable(model_definition) ==
    \A r \in DOMAIN model_definition.reactions :
        Len(Split(model_definition.reactions[r].formula, << "-", ">" >>)) = 2

\* the terms _parse_formula prints a warning for, as (reaction, term)
Warnings(model_definition) ==
    UNION { { << r, t >> :
                t \in UNION { UnparsedTerms(model_definition.species, side) :
                                side \in Range(Split(model_definition.reactions[r].formula,
                                                     << "-", ">" >>)) } } :
              r \in DOMAIN model_definition.reactions }

\* GlobalModel(model_definition)
GlobalModel(model_definition) ==
    IF ~Unpackable(model_definition) THEN [status |-> "ValueError"]
    ELSE [status |-> "ok",
          mdef |-> model_definition,
          species |-> model_definition.species,
          num_species |-> Len(model_definition.species),
          stoich_matrix_net |-> _create_stoich_matrices(model_definition).net,
          stoich_matrix_left |-> _create_stoich_matrices(model_definition).left,
          warnings |-> Warnings(model_definition)]

\* the model of the modelled case
ModelledCase == GlobalModel([species |-> species, reactions |-> reactions])

\* the matrices of the modelled case
left_matrix == left_matrix_of([species |-> species, reactions |-> reactions])

right_matrix == right_matrix_of([species |-> species, reactions |-> reactions])

stoich_matrix_left == left_matrix

stoich_matrix_net == MatrixDifference(right_matrix, left_matrix)

----------------------------------------------------------------------------
(* The EEDF backend: run_eedf, get_eedf_backend, LoKIBackend.run *)

\* process identifiers LoKI-B may report, and the rate coefficients it reports
Pids == { "ion" }
RateVals == { 1, 2 }

\* a rateCoefficients object: process identifier -> rate coefficient
RateMaps == UNION { [S -> RateVals] : S \in SUBSET Pids }

\* subprocess.run(..., timeout=None): no time-out
NoTimeout == 0

\* what the LoKI-B process leaves in output.json: nothing, something json.load
\* or data.keys() fails on, a single-point object, or an object with
\* reducedField_<value> keys (in file order)
JsonFiles ==
    { [kind |-> "missing", rates |-> << >>, scan |-> << >>],
      [kind |-> "unparsable", rates |-> << >>, scan |-> << >>] }
    \cup { [kind |-> "single", rates |-> m, scan |-> << >>] : m \in RateMaps }
    \cup { [kind |-> "scan", rates |-> << >>,
            scan |-> << [reduced_field_Td |-> 20, rate_coefficients |-> [p \in Pids |-> 2]],
                        [reduced_field_Td |-> 10, rate_coefficients |-> [p \in Pids |-> 1]] >>] }

\* the text LoKIBackend.run falls back to: whether output/eedf.txt exists, and
\* the rows (energy, eedf) that file, or else the captured stdout, parses to
Payloads ==
    { [eedf_txt |-> FALSE, rows |-> 0], [eedf_txt |-> TRUE, rows |-> 2] }

\* table_entries.sort(key=reduced_field_Td): a stable insertion sort
RECURSIVE SortEntries(_)
SortEntries(es) ==
    IF es = << >> THEN << >>
    ELSE LET least == SetMin({ es[i].reduced_field_Td : i \in DOMAIN es })
             first == SetMin({ i \in DOMAIN es : es[i].reduced_field_Td = least })
         IN  << es[first] >> \o SortEntries(RemoveAt(es, first))

\* _parse_loki_json_output: {} (here type "empty") when output.json is missing
\* or cannot be parsed, a lookup table for a scan, a single-point response
\* otherwise.  has_rates says whether the response has a 'rate_coefficients' key.
_parse_loki_json_output(json) ==
    IF json.kind \in { "missing", "unparsable" }
    THEN [type |-> "empty", has_rates |-> FALSE, rate_coefficients |-> << >>,
          entries |-> << >>, energy_grid |-> 0]
    ELSE IF json.kind = "scan"
    THEN [type |-> "lookup_table", has_rates |-> FALSE, rate_coefficients |-> << >>,
          entries |-> SortEntries(json.scan), energy_grid |-> 0]
    ELSE [type |-> "single", has_rates |-> TRUE, rate_coefficients |-> json.rates,
          entries |-> << >>, energy_grid |-> 0]

\* _parse_loki_output: the two-column text fallback; it has no rate coefficients
_parse_loki_output(rows) ==
    [type |-> "text", has_rates |-> FALSE, rate_coefficients |-> << >>,
     entries |-> << >>, energy_grid |-> rows]

\* LoKIBackend.run after the process exited with status 0: the JSON output
\* if it parsed to something, else eedf.txt or the captured stdout as text
LokiResponse(json, rows) ==
    IF _parse_loki_json_output(json).type # "empty"
    THEN _parse_loki_json_output(json)
    ELSE _parse_loki_output(rows)

\* result.get('rate_coefficients', {})
RateCoeffsOf(result) == IF result.has_rates THEN result.rate_coefficients ELSE << >>

----------------------------------------------------------------------------
(* GlobalModel._ode_system *)

NoRun == [stage |-> "none", rc |-> 0, json |-> "missing", eedf_txt |-> FALSE, rows |-> 0]

NoFrame == [t |-> 0, y |-> << >>, decl |-> "ok", i |-> 0, ts |-> 0, timeout |-> NoTimeout]

NoRet == [kind |-> "none", exc |-> "", ts |-> -1, vec |-> << >>]

\* np.maximum(y[:-1], 1e-10)
Densities(y) == [s \in 1..num_species |-> IF y[s] > Floor THEN y[s] ELSE Floor]

\* max(y[-1], 1e-10)
ElectronEnergyDensity(y) == IF y[Len(y)] > Floor THEN y[Len(y)] ELSE Floor

\* a trigger test that forgets the cache: it fires at every near match
TriggeredAlways(t, ts, cache) == Abs(t - ts) < Tol

\* a trigger test without the absolute value: it fires long before ts
TriggeredOneSided(t, ts, cache) == t - ts < Tol /\ ts \notin DOMAIN cache

\* a trigger test without the tolerance: it fires for every uncached timestamp
TriggeredAtAnyTime(t, ts, cache) == ts \notin DOMAIN cache

\* the trigger test of the timestamp loop
Triggered(t, ts, cache) == Abs(t - ts) < Tol /\ ts \notin DOMAIN cache

\* the first index >= i of eedf_timestamps the loop calls the backend for (0: none)
NextTrigger(i, t, cache) ==
    IF ~eedf_enabled THEN 0
    ELSE LET hits == { n \in i..Len(eedf_timestamps) : Triggered(t, eedf_timestamps[n], cache) }
         IN  IF hits = {} THEN 0 ELSE SetMin(hits)

\* a sentinel shaped like the densities alone, without the energy component
DeclarationsFailedShort(y) ==
    [kind |-> "nan", exc |-> "", ts |-> -1, vec |-> [i \in 1..(Len(y) - 1) |-> NaN]]

\* np.full_like(y, np.nan): what _ode_system returns when declarations fail
DeclarationsFailed(y) ==
    [kind |-> "nan", exc |-> "", ts |-> -1, vec |-> [i \in DOMAIN y |-> NaN]]

\* a backend error swallowed into the NaN sentinel
BackendRaisedAsNaN(exc, ts, y) == DeclarationsFailed(y)

\* an exception of the backend call for ts is not caught in _ode_system
BackendRaised(exc, ts, y) == [kind |-> "raise", exc |-> exc, ts |-> ts, vec |-> << >>]

\* a selection that does not filter by time: every cached timestamp
AllTs(cache, t) == DOMAIN cache

\* [ts for ts in self.eedf_results.keys() if ts <= t + 1e-9]
ValidTs(cache, t) == { ts \in DOMAIN cache : ts <= t + Tol }

\* max(valid_ts)
CurrentTs(valid_ts) == SetMax(valid_ts)

\* _get_eedf_rate_coefficient: the rate coefficient and where it came from
_get_eedf_rate_coefficient(reaction, t, cache) ==
    IF DOMAIN cache = {} THEN [src |-> "empty_cache", ts |-> -1, k |-> Fin(0)]
    ELSE IF ValidTs(cache, t) = {} THEN [src |-> "no_valid_ts", ts |-> -1, k |-> Fin(0)]
    ELSE LET current_ts == CurrentTs(ValidTs(cache, t))
             rate_coeffs == RateCoeffsOf(cache[current_ts])
         IN  IF reaction.process = ""
             THEN [src |-> "no_process", ts |-> current_ts, k |-> Fin(0)]
             ELSE IF reaction.process \in DOMAIN rate_coeffs
             THEN [src |-> "entry", ts |-> current_ts, k |-> Fin(rate_coeffs[reaction.process])]
             ELSE [src |-> "missing_process", ts |-> current_ts, k |-> Fin(0)]

\* the rate coefficient of reaction r: the EEDF lookup when the reaction is
\* EEDF-driven and the cache is not empty, else the compiled expression,
\* whose value is kexpr
RateCoefficient(self, r, t, cache, kexpr) ==
    IF self.mdef.reactions[r].use_eedf /\ DOMAIN cache # {}
    THEN _get_eedf_rate_coefficient(self.mdef.reactions[r], t, cache)
    ELSE [src |-> "expr", ts |-> -1, k |-> kexpr]

\* rate = k * prod(densities[j] ** reactants[j] for reactants[j] > 0)
RECURSIVE DensityProduct(_, _, _, _)
DensityProduct(self, r, densities, j) ==
    IF j > self.num_species THEN Fin(1)
    ELSE IF self.stoich_matrix_left[r][j] > 0
    THEN FMul(FPow(Fin(densities[j]), self.stoich_matrix_left[r][j]),
              DensityProduct(self, r, densities, j + 1))
    ELSE DensityProduct(self, r, densities, j + 1)

ReactionRate(self, r, k, densities) == FMul(k, DensityProduct(self, r, densities, 1))

\* the warning of _get_eedf_rate_coefficient is printed in debug mode, on
\* every WarnEvery-th step
WarnsMissing(counter) == debug /\ counter % WarnEvery = 0

\* the rest of _ode_system once the timestamp loop is through: rates,
\* particle balance, power balance (power: Q_abs; eloss: energy loss per reaction)
Derivatives(self, t, y, cache, kexpr, eloss, power) ==
    LET densities == Densities(y)
        rs == DOMAIN self.mdef.reactions
        k == [r \in rs |-> RateCoefficient(self, r, t, cache, kexpr[r]).k]
        reaction_rates == [r \in rs |-> ReactionRate(self, r, k[r], densities)]
        dY_dt == [s \in 1..self.num_species |->
                    FSum([r \in rs |->
                            FMul(reaction_rates[r], Fin(self.stoich_matrix_net[r][s]))])]
        Q_loss == FSum([r \in rs |-> FMul(reaction_rates[r], eloss[r])])
        dE_dt == FSub(power, Q_loss)
    IN  Append(dY_dt, dE_dt)

\* what _ode_system does with the derivatives: a non-finite one is reported
\* on the console, and the vector is returned
ReturnDerivatives(derivatives) ==
    [kind |-> "value", exc |-> "", ts |-> -1, vec |-> derivatives]

CriticalDiag(derivatives) ==
    IF \E i \in DOMAIN derivatives : ~IsFinite(derivatives[i]) THEN { << "critical", 0 >> } ELSE {}

MissingDiag(t, cache, kexpr, counter) ==
    { << "missing_process", r >> : r \in
        { r \in 1..num_reactions :
            /\ RateCoefficient(ModelledCase, r, t, cache, kexpr[r]).src = "missing_process"
            /\ WarnsMissing(counter) } }

\* run() was not called
RunIdle ==
    /\ initial_values = [settings |-> << >>, seeds |-> << >>]
    /\ run_pc = "new"
    /\ y0 = << >>
    /\ results = "None"

\* no evaluation with flow_parameters was made
FlowIdle ==
    /\ flow_mode = "none"
    /\ flow_parameters = << >>
    /\ flow_sinks = << >>
    /\ flow_sources = << >>

\* build_model_definition was not called
BuilderIdle ==
    /\ chemistry_files = << >>
    /\ built = [status |-> "none"]

\* no LokiBSolver was used
NoBuild == [status |-> "none"]

TablesIdle ==
    /\ table_files = << >>
    /\ output_files = << >>
    /\ last_build = NoBuild

\* no evaluation context was built
NoParams == [t |-> -1]

ContextIdle == params = NoParams

----------------------------------------------------------------------------
(* Inputs of the model *)

Times == 0..MaxTime

\* the lists mdef['eedf']['timestamps'] may hold: none, one timestamp, two
\* within the tolerance of one evaluation time, two far apart (in either
\* order), one timestamp listed twice, one late timestamp alone
TimestampLists == { << >>, << 0 >>, << 1, 2 >>, << 0, 3 >>, << 3, 0 >>, << 2, 2 >>, << 3 >> }

\* state vectors the solver hands to _ode_system (densities, then energy density)
YInputs == { [i \in 1..(num_species + 1) |-> v] : v \in { 0, 2 } }

\* how the declarations callable ends
DeclOutcomes == { "ok", "ValueError", "ZeroDivisionError", "KeyError" }

\* the values of the compiled rate expressions, of the energy-loss
\* expressions and of the absorbed power density in one evaluation
KInputs == { [r \in 1..num_reactions |-> k] : k \in { Fin(1), PInf } }
ELossInputs == { [r \in 1..num_reactions |-> Fin(1)] }
PowerInputs == { Fin(3) }

\* non-zero exit statuses of the LoKI-B process
FailureCodes == { 1 }

----------------------------------------------------------------------------
(* Actions *)

\* self.eedf_results[ts] = result
Store(cache, ts, result) ==
    [key \in DOMAIN cache \cup { ts } |-> IF key = ts THEN result ELSE cache[key]]

\* _ode_system returns (or raises) without calling the backend again
Complete(t, y, cache, inv, lr, dg, kexpr, eloss, power) ==
    LET derivatives == Derivatives(ModelledCase, t, y, cache, kexpr, eloss, power)
    IN  /\ pc' = "idle"
        /\ frame' = [NoFrame EXCEPT !.t = t]
        /\ eedf_results' = cache
        /\ invoked' = inv
        /\ last_run' = lr
        /\ rate_src' = [r \in 1..num_reactions |->
                            RateCoefficient(ModelledCase, r, t, cache, kexpr[r])]
        /\ diag' = dg \cup MissingDiag(t, cache, kexpr, debug_step_counter)
                      \cup CriticalDiag(derivatives)
        /\ debug_step_counter' = debug_step_counter + 1
        /\ ret' = ReturnDerivatives(derivatives)

\* the call ends early: with the NaN sentinel, or with an exception
Raise(t, decl, cache, inv, lr, dg, r) ==
    /\ pc' = "idle"
    /\ frame' = [NoFrame EXCEPT !.t = t, !.decl = decl]
    /\ eedf_results' = cache
    /\ invoked' = inv
    /\ last_run' = lr
    /\ rate_src' = << >>
    /\ diag' = dg
    /\ ret' = r
    /\ UNCHANGED debug_step_counter

\* run_eedf(self.mdef, request) for eedf_timestamps[j]: get_eedf_backend picks
\* LoKIBackend (whose constructor looks for the binary, and whose run builds the
\* input file and starts the process) or NullBackend
CallBackend(j, t, y, cache, inv, dg, binary, lxcat) ==
    LET ts == eedf_timestamps[j]
        called == Append(inv, ts)
    IN  IF eedf_backend # "loki"
        THEN Raise(t, "ok", cache, called, [NoRun EXCEPT !.stage = "null_backend"], dg,
                   BackendRaised("NotImplementedError", ts, y))
        ELSE IF ~binary
        THEN Raise(t, "ok", cache, called, [NoRun EXCEPT !.stage = "no_binary"], dg,
                   BackendRaised("FileNotFoundError", ts, y))
        ELSE IF ~lxcat
        THEN Raise(t, "ok", cache, called, [NoRun EXCEPT !.stage = "no_lxcat"], dg,
                   BackendRaised("ValueError", ts, y))
        ELSE /\ pc' = "subprocess"
             /\ frame' = [t |-> t, y |-> y, decl |-> "ok", i |-> j, ts |-> ts,
                          timeout |-> NoTimeout]
             /\ eedf_results' = cache
             /\ invoked' = called
             /\ last_run' = [NoRun EXCEPT !.stage = "spawned"]
             /\ rate_src' = << >>
             /\ diag' = dg
             /\ ret' = [NoRet EXCEPT !.kind = "pending"]
             /\ UNCHANGED debug_step_counter

\* the timestamp loop from index i on, and what follows it
Proceed(i, t, y, cache, inv, lr, dg) ==
    LET j == NextTrigger(i, t, cache)
    IN  IF j = 0
        THEN \E kexpr \in KInputs, eloss \in ELossInputs, power \in PowerInputs :
                Complete(t, y, cache, inv, lr, dg, kexpr, eloss, power)
        ELSE \E binary \in BOOLEAN, lxcat \in BOOLEAN :
                CallBackend(j, t, y, cache, inv, dg, binary, lxcat)

\* the solver (or a caller) evaluates _ode_system(t, y); decl is how the
\* declarations callable ends
OdeSystem(t, y, decl) ==
    /\ pc = "idle"
    /\ debug_step_counter < MaxSteps
    /\ IF decl \in { "ValueError", "ZeroDivisionError" }
       THEN Raise(t, decl, eedf_results, << >>, NoRun, {}, DeclarationsFailed(y))
       ELSE IF decl # "ok"
       THEN Raise(t, decl, eedf_results, << >>, NoRun, {},
                  [kind |-> "raise", exc |-> decl, ts |-> -1, vec |-> << >>])
       ELSE Proceed(1, t, y, eedf_results, << >>, NoRun, {})
    /\ UNCHANGED << eedf_enabled, eedf_backend, eedf_timestamps, debug, compilerVars,
                   constructionVars, loaderVars, solverVars, runVars, flowVars, builderVars, tableVars, contextVars >>

\* the LoKI-B process exits with a non-zero status: LoKIBackend.run raises
ProcessFails(rc) ==
    /\ pc = "subprocess"
    /\ Raise(frame.t, "ok", eedf_results, invoked,
             [NoRun EXCEPT !.stage = "exited", !.rc = rc], diag,
             BackendRaised("RuntimeError", frame.ts, frame.y))
    /\ UNCHANGED << eedf_enabled, eedf_backend, eedf_timestamps, debug, compilerVars,
                   constructionVars, loaderVars, solverVars, runVars, flowVars, builderVars, tableVars, contextVars >>

\* the LoKI-B process exits with status 0: LoKIBackend.run parses the output,
\* _ode_system stores the response and goes on with the loop
ProcessExits(json, payload) ==
    /\ pc = "subprocess"
    /\ LET lr == [stage |-> "exited", rc |-> 0, json |-> json.kind,
                  eedf_txt |-> payload.eedf_txt, rows |-> payload.rows]
           result == LokiResponse(json, payload.rows)
           dg == IF debug /\ DOMAIN RateCoeffsOf(result) = {}
                 THEN diag \cup { << "no_rate_coefficients", frame.ts >> } ELSE diag
       IN  Proceed(frame.i + 1, frame.t, frame.y,
                   Store(eedf_results, frame.ts, result), invoked, lr, dg)
    /\ UNCHANGED << eedf_enabled, eedf_backend, eedf_timestamps, debug, compilerVars,
                   constructionVars, loaderVars, solverVars, runVars, flowVars, builderVars, tableVars, contextVars >>

----------------------------------------------------------------------------
(* The engine: a GlobalModel, and any sequence of evaluations *)

\* no model is under construction, no chemistry file is being loaded, no
\* integration is running
NotConstructed == [status |-> "none"]

ConstructionIdle == mdef = [species |-> << >>, reactions |-> << >>] /\ written = << >> /\ model = NotConstructed

NotLoaded == [status |-> "none"]

LoaderIdle == chem_entry = [name |-> << >>] /\ loaded = NotLoaded

SolverIdle == sol_y = << >> /\ sol_prev = << >> /\ sol_dy = << >>

Init ==
    /\ ContextIdle
    /\ TablesIdle
    /\ BuilderIdle
    /\ FlowIdle
    /\ RunIdle
    /\ eedf_enabled \in BOOLEAN
    /\ eedf_backend \in { "loki", "bolsig" }
    /\ eedf_timestamps \in TimestampLists
    /\ debug \in BOOLEAN
    /\ eedf_results = << >>
    /\ debug_step_counter = 0
    /\ pc = "idle"
    /\ frame = NoFrame
    /\ invoked = << >>
    /\ last_run = NoRun
    /\ ret = NoRet
    /\ rate_src = << >>
    /\ diag = {}
    /\ expr = StrExpr(<< >>)
    /\ compiled = NotCompiled
    /\ fn_result = NotCalled
    /\ ctx = << >>
    /\ ConstructionIdle
    /\ LoaderIdle
    /\ SolverIdle

Next ==
    \/ \E t \in Times, y \in YInputs, decl \in DeclOutcomes : OdeSystem(t, y, decl)
    \/ \E rc \in FailureCodes : ProcessFails(rc)
    \/ \E json \in JsonFiles, payload \in Payloads : ProcessExits(json, payload)

Spec == Init /\ [][Next]_vars

----------------------------------------------------------------------------
(* The expression compiler: inputs *)

\* operands of the expressions: shorthands, lookups, calls, and what the policy forbids
Operands ==
    \* Te
    { << "T", "e" >>,
    \* Tg
      << "T", "g" >>,
    \* 2.0
      << "2", ".", "0" >>,
    \* 3
      << "3" >>,
    \* p['a']
      << "p", "[", "'", "a", "'", "]" >>,
    \* p['m']['a']
      << "p", "[", "'", "m", "'", "]", "[", "'", "a", "'", "]" >>,
    \* p.get('z', 1)
      << "p", ".", "g", "e", "t", "(", "'", "z", "'", ",", " ", "1", ")" >>,
    \* exp(0)
      << "e", "x", "p", "(", "0", ")" >>,
    \* math.sqrt(4)
      << "m", "a", "t", "h", ".", "s", "q", "r", "t", "(", "4", ")" >>,
    \* q['a']
      << "q", "[", "'", "a", "'", "]" >>,
    \* __import__('os')
      << "_", "_", "i", "m", "p", "o", "r", "t", "_", "_", "(", "'", "o", "s", "'", ")" >>,
    \* math.pi
      << "m", "a", "t", "h", ".", "p", "i" >>,
    \* Tg['x']
      << "T", "g", "[", "'", "x", "'", "]" >>,
    \* x
      << "x" >>,
    \* p
      << "p" >>,
    \* p['Te_eV']
      << "p", "[", "'", "T", "e", "_", "e", "V", "'", "]" >>,
    \* Temp
      << "T", "e", "m", "p" >>,
    \* 1e309
      << "1", "e", "3", "0", "9" >>,
    \* p.keys()
      << "p", ".", "k", "e", "y", "s", "(", ")" >> }

\* the binary operators of the expressions, with their spaces
Operators == { << " ", "+", " " >>, << " ", "*", " " >>, << " ", "/", " " >>, << " ", ">", " " >> }

\* further expressions: the documented example, lists, unary operators, malformed text
OtherExprs ==
    \* 2.0 * Te + 3
    { << "2", ".", "0", " ", "*", " ", "T", "e", " ", "+", " ", "3" >>,
    \* [1, 2]
      << "[", "1", ",", " ", "2", "]" >>,
    \* (the empty string)
      << >>,
    \* 1, 2
      << "1", ",", " ", "2" >>,
    \* p['a'
      << "p", "[", "'", "a", "'" >>,
    \* import os
      << "i", "m", "p", "o", "r", "t", " ", "o", "s" >>,
    \* -Te
      << "-", "T", "e" >>,
    \* +Te
      << "+", "T", "e" >>,
    \* (Te)
      << "(", "T", "e", ")" >>,
    \* p.get('a', 3)
      << "p", ".", "g", "e", "t", "(", "'", "a", "'", ",", " ", "3", ")" >>,
    \* math.cos(0)
      << "m", "a", "t", "h", ".", "c", "o", "s", "(", "0", ")" >>,
    \* p['z']
      << "p", "[", "'", "z", "'", "]" >>,
    \* sqrt(-1)
      << "s", "q", "r", "t", "(", "-", "1", ")" >>,
    \* p[exp]
      << "p", "[", "e", "x", "p", "]" >>,
    \* exp
      << "e", "x", "p" >>,
    \* xTe
      << "x", "T", "e" >>,
    \* p.Te
      << "p", ".", "T", "e" >>,
    \* p(1)
      << "p", "(", "1", ")" >>,
    \* p["Te_eV"]
      << "p", "[", "\"", "T", "e", "_", "e", "V", "\"", "]" >>,
    \* 2 ** 3
      << "2", " ", "*", "*", " ", "3" >>,
    \* math.exp.__call__(1)
      << "m", "a", "t", "h", ".", "e", "x", "p", ".", "_", "_", "c", "a", "l", "l", "_", "_", "(", "1", ")" >>,
    \* p.get('m')['a']
      << "p", ".", "g", "e", "t", "(", "'", "m", "'", ")", "[", "'", "a", "'", "]" >> }

\* the strings handed to _build_lambda
ExprTexts ==
    Operands \cup OtherExprs
    \cup { a \o op \o b : a \in Operands, op \in Operators, b \in Operands }

\* the rate_coeff / energy_loss entries of a chemistry file: strings, and numbers
ExprInputs == { StrExpr(text) : text \in ExprTexts } \cup { NumExpr(Fin(2)), NumExpr(IntVal(3)) }

KeyTe == << "T", "e", "_", "e", "V" >>
KeyTg == << "T", "g", "_", "K" >>

\* a context with both temperatures, a number and a nested dictionary
CtxFull ==
    (KeyTe :> Fin(2)) @@ (KeyTg :> Fin(3)) @@ (<< "a" >> :> IntVal(5))
    @@ (<< "m" >> :> Dict(<< "a" >> :> Fin(7)))

\* a context without gas temperature and without the nested dictionary
CtxBare == (KeyTe :> Fin(0)) @@ (<< "a" >> :> Fin(4))

Contexts == { CtxFull, CtxBare }

----------------------------------------------------------------------------
(* The expression compiler: _build_lambda on one expression, then calls of *)
(* the callable it returned                                                *)

BuildLambda ==
    /\ compiled.status = "none"
    /\ compiled' = _build_lambda(expr)
    /\ UNCHANGED << expr, fn_result, ctx, engineVars, constructionVars, loaderVars, solverVars, runVars, flowVars, builderVars, tableVars, contextVars >>

Call_fn(p) ==
    /\ compiled.status = "ok"
    /\ fn_result.kind = "none"
    /\ fn_result' = CallFn(compiled, p)
    /\ ctx' = p
    /\ UNCHANGED << expr, compiled, engineVars, constructionVars, loaderVars, solverVars, runVars, flowVars, builderVars, tableVars, contextVars >>

CompilerInit ==
    /\ ContextIdle
    /\ TablesIdle
    /\ BuilderIdle
    /\ FlowIdle
    /\ RunIdle
    /\ eedf_enabled = FALSE
    /\ eedf_backend = "loki"
    /\ eedf_timestamps = << >>
    /\ debug = FALSE
    /\ eedf_results = << >>
    /\ debug_step_counter = 0
    /\ pc = "idle"
    /\ frame = NoFrame
    /\ invoked = << >>
    /\ last_run = NoRun
    /\ ret = NoRet
    /\ rate_src = << >>
    /\ diag = {}
    /\ expr \in ExprInputs
    /\ compiled = NotCompiled
    /\ fn_result = NotCalled
    /\ ctx = << >>
    /\ ConstructionIdle
    /\ LoaderIdle
    /\ SolverIdle

CompilerNext ==
    \/ BuildLambda
    \/ \E p \in Contexts : Call_fn(p)

CompilerSpec == CompilerInit /\ [][CompilerNext]_vars

----------------------------------------------------------------------------
(* The construction of a GlobalModel: model definitions *)

\* the longest side of a generated formula, and its largest coefficient
MaxTerms == 2
MaxCoeff == 2

\* the species of input_models/oxygen.py and input_models/argon_model_input.py
OxygenSpecies ==
    << << "O", "2" >>, << "O", "2", "+" >>, << "O" >>, << "O", "+" >>, << "O", "-" >>, << "e" >> >>

ArgonSpecies ==
    << << "A", "r" >>, << "A", "r", "_", "4", "s" >>, << "A", "r", "_", "4", "p" >>,
       << "A", "r", "+" >>, << "e" >> >>

\* a species list in which names are proper suffixes of other names
\* (e of He, O of NO)
SuffixSpecies == << << "e" >>, << "O" >>, << "H", "e" >>, << "N", "O" >>, << "N", "O", "+" >> >>

\* names of no species of these lists
UnknownNames == { << "X", "e" >>, << "N", "2" >> }

\* n times the species name, as a term of a formula
T(n, name) == [n |-> n, name |-> name]

\* a reaction: the terms of its two sides, and its type
Rx(lhs, rhs, type) == [lhs |-> lhs, rhs |-> rhs, type |-> type]

\* the reactions of input_models/oxygen.py, but the wall reaction
\* 'O -> 0.5O2', whose coefficient is no integer
OxygenReactions ==
    LET O2 == OxygenSpecies[1]
        O2p == OxygenSpecies[2]
        O == OxygenSpecies[3]
        Op == OxygenSpecies[4]
        Om == OxygenSpecies[5]
        e == OxygenSpecies[6]
    IN  << \* e + O2 -> e + O2
           Rx(<< T(1, e), T(1, O2) >>, << T(1, e), T(1, O2) >>, "V"),
           \* e + O2 -> O2+ + 2e
           Rx(<< T(1, e), T(1, O2) >>, << T(1, O2p), T(2, e) >>, "V"),
           \* e + O2 -> O + O-
           Rx(<< T(1, e), T(1, O2) >>, << T(1, O), T(1, Om) >>, "V"),
           \* O2+ + O- -> O2 + O
           Rx(<< T(1, O2p), T(1, Om) >>, << T(1, O2), T(1, O) >>, "V"),
           \* O- + O+ -> 2O
           Rx(<< T(1, Om), T(1, Op) >>, << T(2, O) >>, "V"),
           \* e + O- -> O + 2e
           Rx(<< T(1, e), T(1, Om) >>, << T(1, O), T(2, e) >>, "V"),
           \* e + O2 -> O- + O+ + e
           Rx(<< T(1, e), T(1, O2) >>, << T(1, Om), T(1, Op), T(1, e) >>, "V"),
           \* e + O2 -> O + O+ + 2e
           Rx(<< T(1, e), T(1, O2) >>, << T(1, O), T(1, Op), T(2, e) >>, "V"),
           \* e + O -> O+ + 2e
           Rx(<< T(1, e), T(1, O) >>, << T(1, Op), T(2, e) >>, "V"),
           \* O2 + e -> 2O + e
           Rx(<< T(1, O2), T(1, e) >>, << T(2, O), T(1, e) >>, "V"),
           \* O+ -> O
           Rx(<< T(1, Op) >>, << T(1, O) >>, "W"),
           \* O2+ -> O2
           Rx(<< T(1, O2p) >>, << T(1, O2) >>, "W") >>

\* the reactions of input_models/argon_model_input.py
ArgonReactions ==
    LET Ar == ArgonSpecies[1]
        Ar4s == ArgonSpecies[2]
        Ar4p == ArgonSpecies[3]
        Arp == ArgonSpecies[4]
        e == ArgonSpecies[5]
    IN  << \* Ar + e -> Ar + e
           Rx(<< T(1, Ar), T(1, e) >>, << T(1, Ar), T(1, e) >>, "V"),
           \* Ar + e -> Ar_4s + e
           Rx(<< T(1, Ar), T(1, e) >>, << T(1, Ar4s), T(1, e) >>, "V"),
           \* Ar_4s + e -> Ar + e
           Rx(<< T(1, Ar4s), T(1, e) >>, << T(1, Ar), T(1, e) >>, "V"),
           \* Ar + e -> Ar_4p + e
           Rx(<< T(1, Ar), T(1, e) >>, << T(1, Ar4p), T(1, e) >>, "V"),
           \* Ar_4p + e -> Ar + e
           Rx(<< T(1, Ar4p), T(1, e) >>, << T(1, Ar), T(1, e) >>, "V"),
           \* Ar_4s + e -> Ar_4p + e
           Rx(<< T(1, Ar4s), T(1, e) >>, << T(1, Ar4p), T(1, e) >>, "V"),
           \* Ar_4p + e -> Ar_4s + e
           Rx(<< T(1, Ar4p), T(1, e) >>, << T(1, Ar4s), T(1, e) >>, "V"),
           \* Ar + e -> Ar+ + 2e
           Rx(<< T(1, Ar), T(1, e) >>, << T(1, Arp), T(2, e) >>, "V"),
           \* Ar_4s + e -> Ar+ + 2e
           Rx(<< T(1, Ar4s), T(1, e) >>, << T(1, Arp), T(2, e) >>, "V"),
           \* Ar_4p + e -> Ar+ + 2e
           Rx(<< T(1, Ar4p), T(1, e) >>, << T(1, Arp), T(2, e) >>, "V"),
           \* Ar+ -> Ar
           Rx(<< T(1, Arp) >>, << T(1, Ar) >>, "W"),
           \* Ar_4s -> Ar
           Rx(<< T(1, Ar4s) >>, << T(1, Ar) >>, "W"),
           \* Ar_4p -> Ar
           Rx(<< T(1, Ar4p) >>, << T(1, Ar) >>, "W") >>

\* the text of a term ("O2+", "2e"), of a side (terms joined by " + "), of a
\* formula (sides joined by " -> ")
TermText(t) == (IF t.n = 1 THEN << >> ELSE << Digits[t.n + 1] >>) \o t.name

RECURSIVE SideText(_)
SideText(terms) ==
    IF Len(terms) = 1 THEN TermText(terms[1])
    ELSE TermText(terms[1]) \o << " ", "+", " " >> \o SideText(Tail(terms))

FormulaText(rx) == SideText(rx.lhs) \o << " ", "-", ">", " " >> \o SideText(rx.rhs)

\* the model definition with these species and these reactions
Definition(species_list, rxs) ==
    [species |-> species_list,
     reactions |-> [r \in DOMAIN rxs |-> [formula |-> FormulaText(rxs[r]), type |-> rxs[r].type]]]

\* sides of at most MaxTerms terms, coefficients up to MaxCoeff, over the
\* species of the list and the unknown names
GeneratedSides(species_list) ==
    LET terms == { T(n, name) : n \in 1..MaxCoeff, name \in Range(species_list) \cup UnknownNames }
    IN  UNION { [1..len -> terms] : len \in 1..MaxTerms }

\* one volume reaction from a generated side to a neutral or to two electrons
GeneratedReactions(species_list) ==
    { << Rx(lhs, rhs, "V") >> :
        lhs \in GeneratedSides(species_list),
        rhs \in { << T(1, species_list[1]) >>, << T(2, << "e" >>) >> } }

\* a definition whose formula has no arrow: 'Ar+ + e'
MalformedDefinition ==
    [species |-> ArgonSpecies,
     reactions |-> << [formula |-> SideText(<< T(1, ArgonSpecies[4]), T(1, ArgonSpecies[5]) >>),
                       type |-> "V"] >>]

\* the written chemistries: the two of the repository, and the generated ones
WrittenChemistries ==
    { [species |-> OxygenSpecies, reactions |-> OxygenReactions],
      [species |-> ArgonSpecies, reactions |-> ArgonReactions] }
    \cup { [species |-> sl, reactions |-> rxs] :
             sl \in { OxygenSpecies }, rxs \in GeneratedReactions(OxygenSpecies) }
    \cup { [species |-> sl, reactions |-> rxs] :
             sl \in { ArgonSpecies }, rxs \in GeneratedReactions(ArgonSpecies) }
    \cup { [species |-> sl, reactions |-> rxs] :
             sl \in { SuffixSpecies }, rxs \in GeneratedReactions(SuffixSpecies) }

----------------------------------------------------------------------------
(* The construction of a GlobalModel from a model definition *)

Construct ==
    /\ model.status = "none"
    /\ model' = GlobalModel(mdef)
    /\ UNCHANGED << mdef, written, engineVars, compilerVars, loaderVars, solverVars, runVars, flowVars, builderVars, tableVars, contextVars >>

EngineIdle ==
    /\ eedf_enabled = FALSE
    /\ eedf_backend = "loki"
    /\ eedf_timestamps = << >>
    /\ debug = FALSE
    /\ eedf_results = << >>
    /\ debug_step_counter = 0
    /\ pc = "idle"
    /\ frame = NoFrame
    /\ invoked = << >>
    /\ last_run = NoRun
    /\ ret = NoRet
    /\ rate_src = << >>
    /\ diag = {}

CompilerIdle ==
    /\ expr = StrExpr(<< >>)
    /\ compiled = NotCompiled
    /\ fn_result = NotCalled
    /\ ctx = << >>

ConstructionInit ==
    /\ ContextIdle
    /\ TablesIdle
    /\ BuilderIdle
    /\ FlowIdle
    /\ RunIdle
    /\ EngineIdle
    /\ CompilerIdle
    /\ LoaderIdle
    /\ SolverIdle
    /\ \/ \E c \in WrittenChemistries :
             /\ mdef = Definition(c.species, c.reactions)
             /\ written = c.reactions
       \/ mdef = MalformedDefinition /\ written = << >>
    /\ model = NotConstructed

ConstructionNext == Construct

ConstructionSpec == ConstructionInit /\ [][ConstructionNext]_vars

----------------------------------------------------------------------------
(* load_chemistry: the mass of a species *)

UpperCase ==
    { "A", "B", "C", "D", "E", "F", "G", "H", "I", "J", "K", "L", "M", "N", "O", "P", "Q",
      "R", "S", "T", "U", "V", "W", "X", "Y", "Z" }

LowerCase == Letters \ (UpperCase \cup { "_" })

\* ATOMIC_MASSES, in units of 1e-4 amu (the electron: 5.48579909e-4 amu,
\* here rounded to 5 units)
ATOMIC_MASSES ==
    (<< "H" >> :> 10080) @@ (<< "H", "e" >> :> 40026) @@ (<< "C" >> :> 120110)
    @@ (<< "N" >> :> 140070) @@ (<< "O" >> :> 159990) @@ (<< "F" >> :> 189980)
    @@ (<< "N", "e" >> :> 201800) @@ (<< "A", "r" >> :> 399480) @@ (<< "K", "r" >> :> 837980)
    @@ (<< "X", "e" >> :> 1312900) @@ (<< "C", "l" >> :> 354500) @@ (<< "B", "r" >> :> 799040)
    @@ (<< "I" >> :> 1269000) @@ (<< "e" >> :> 5)

\* s without the characters of chars: s.replace(c, '') for each of them
RECURSIVE Without(_, _)
Without(s, chars) ==
    IF s = << >> THEN s
    ELSE IF Head(s) \in chars THEN Without(Tail(s), chars)
    ELSE << Head(s) >> \o Without(Tail(s), chars)

\* re.sub(r'_\d+[spdf]', '', s): an underscore, digits and one of s, p, d, f
\* are removed wherever they occur
RECURSIVE StateSuffixRemoved(_)
StateSuffixRemoved(s) ==
    IF s = << >> THEN s
    ELSE IF /\ Head(s) = "_"
            /\ DigitRun(s, 2) >= 1
            /\ 2 + DigitRun(s, 2) <= Len(s)
            /\ s[2 + DigitRun(s, 2)] \in { "s", "p", "d", "f" }
    THEN StateSuffixRemoved(SubSeq(s, 3 + DigitRun(s, 2), Len(s)))
    ELSE << Head(s) >> \o StateSuffixRemoved(Tail(s))

\* the length of the element symbol at the head of s: an upper-case letter
\* and at most one lower-case letter
SymbolLen(s) == IF Len(s) >= 2 /\ s[2] \in LowerCase THEN 2 ELSE 1

\* re.findall(r'([A-Z][a-z]?)(\d*)', clean_name): the (element, count)
\* pairs, left to right; a character no match starts at is passed over
RECURSIVE FindAll(_)
FindAll(s) ==
    IF s = << >> THEN << >>
    ELSE IF Head(s) \notin UpperCase THEN FindAll(Tail(s))
    ELSE LET n == SymbolLen(s)
             d == DigitRun(s, n + 1)
         IN  << [element |-> SubSeq(s, 1, n), count_str |-> SubSeq(s, n + 1, n + d)] >>
             \o FindAll(SubSeq(s, n + d + 1, Len(s)))

\* the value of "no mass": the None of calculate_mass_from_formula, the
\* missing 'mass_amu' key of a species entry
NoMass == -1

\* the loop over the matches: the masses of the elements times their counts
TotalMass(matches) ==
    IF \E i \in DOMAIN matches : matches[i].element \notin DOMAIN ATOMIC_MASSES THEN NoMass
    ELSE SumSeq([i \in DOMAIN matches |->
                   ATOMIC_MASSES[matches[i].element]
                   * (IF matches[i].count_str = << >> THEN 1
                      ELSE DigitsValue(matches[i].count_str))])

\* calculate_mass_from_formula(species_name): the mass, or None
calculate_mass_from_formula(species_name) ==
    LET clean_name == StateSuffixRemoved(Without(species_name, { "+", "-" }))
    IN  IF clean_name = << "e" >> THEN ATOMIC_MASSES[<< "e" >>]
        ELSE IF FindAll(clean_name) = << >> THEN NoMass
        ELSE TotalMass(FindAll(clean_name))

\* the loop body of load_chemistry for one species entry: its mass in the
\* mass dictionary under its name without charge signs, or the ValueError
LoadedSpecies(sp) ==
    LET mass_amu == IF sp.mass_amu # NoMass THEN sp.mass_amu
                    ELSE calculate_mass_from_formula(sp.name)
    IN  IF mass_amu = NoMass THEN [status |-> "ValueError"]
        ELSE [status |-> "ok", mass_amu |-> mass_amu,
              clean_name |-> Without(sp.name, { "+", "-" })]

\* the parts the species names of the chemistry files are put together from:
\* formulas, an unknown element, characters of no formula, charges, states
NameHeads ==
    { << >>, << "O" >>, << "O", "2" >>, << "A", "r" >>, << "H", "2" >>, << "Q" >>,
      << "C", "o" >>, << "x" >>, << "2" >>, << "e" >> }

NameMiddles == { << >>, << "O" >>, << "H", "e" >>, << "Z", "3" >>, << "0" >>, << "(", "a", ")" >> }

NameTails ==
    { << >>, << "+" >>, << "-" >>, << "_", "4", "s" >>, << "_", "1", "0", "p", "+" >>,
      << "_", "m" >>, << "*" >> }

SpeciesNames == { h \o m \o t : h \in NameHeads, m \in NameMiddles, t \in NameTails } \ { << >> }

\* the entries of chem['species']: a name, and a mass_amu or none
SpeciesEntries == { [name |-> n, mass_amu |-> m] : n \in SpeciesNames, m \in { NoMass, 400000 } }

LoadSpecies ==
    /\ loaded.status = "none"
    /\ loaded' = LoadedSpecies(chem_entry)
    /\ UNCHANGED << chem_entry, engineVars, compilerVars, constructionVars, solverVars, runVars, flowVars, builderVars, tableVars, contextVars >>

LoaderInit ==
    /\ ContextIdle
    /\ TablesIdle
    /\ BuilderIdle
    /\ FlowIdle
    /\ RunIdle
    /\ EngineIdle
    /\ CompilerIdle
    /\ ConstructionIdle
    /\ SolverIdle
    /\ chem_entry \in SpeciesEntries
    /\ loaded = NotLoaded

LoaderNext == LoadSpecies

LoaderSpec == LoaderInit /\ [][LoaderNext]_vars

----------------------------------------------------------------------------
(* The integration of the ionization-only case: run() and its solver steps *)

\* the largest electron density a solver step is taken from
MaxDensity == 40

\* the step sizes the solver takes, in units of model time
StepSizes == { 1, 2 }

\* model definitions with the single reaction e + A -> A+ + 2e, a constant
\* rate coefficient, a constant energy loss, no EEDF and no flow_parameters
IonizationDefinitions ==
    { [species |-> species,
       reactions |-> << [formula |-> FormulaIonization, use_eedf |-> FALSE, process |-> "",
                         rate_coeff |-> Fin(k), energy_loss |-> Fin(1)] >>] :
        k \in 0..2 }

\* y0: a background gas, ions and electrons of positive density, and the
\* electron energy density
InitialStates ==
    { << a, ap, e, 3 >> : a \in { 4, 6 }, ap \in { 1, 2 }, e \in { 1, 2 } }

\* solve_ivp(self._ode_system, ...): the solver calls _ode_system at its
\* state and advances the state by h times the derivatives it returned
\* (no EEDF, declarations that succeed, no power input)
SolverStep(h) ==
    /\ model.status = "ok"
    /\ sol_y # << >>
    /\ sol_y[SpeciesIndex(model.species, << "e" >>)] <= MaxDensity
    /\ LET rate_coeff == [r \in DOMAIN mdef.reactions |-> mdef.reactions[r].rate_coeff]
           energy_loss == [r \in DOMAIN mdef.reactions |-> mdef.reactions[r].energy_loss]
           derivatives == Derivatives(model, 0, sol_y, << >>, rate_coeff, energy_loss, Fin(0))
       IN  /\ \A i \in DOMAIN derivatives : IsFinite(derivatives[i])
           /\ sol_dy' = derivatives
           /\ sol_prev' = sol_y
           /\ sol_y' = [i \in DOMAIN sol_y |-> sol_y[i] + h * derivatives[i].v]
    /\ UNCHANGED << engineVars, compilerVars, constructionVars, loaderVars, runVars, flowVars, builderVars, tableVars, contextVars >>

IonizationInit ==
    /\ ContextIdle
    /\ TablesIdle
    /\ BuilderIdle
    /\ FlowIdle
    /\ RunIdle
    /\ EngineIdle
    /\ CompilerIdle
    /\ LoaderIdle
    /\ mdef \in IonizationDefinitions
    /\ written = << >>
    /\ model = GlobalModel(mdef)
    /\ sol_y \in InitialStates
    /\ sol_prev = << >>
    /\ sol_dy = << >>

IonizationNext == \E h \in StepSizes : SolverStep(h)

IonizationSpec == IonizationInit /\ [][IonizationNext]_vars

----------------------------------------------------------------------------
(* Evaluations of _ode_system for an elastic-collision-only reaction set *)

\* the two sides of an elastic collision: the same terms, in either order
ElasticSides ==
    { << T(1, << "e" >>), T(1, << "A" >>) >>,
      << T(1, << "A", "+" >>), T(1, << "e" >>) >>,
      << T(2, << "A" >>) >>,
      << T(1, << "A" >>), T(2, << "e" >>) >> }

Reversed(s) == [i \in DOMAIN s |-> s[Len(s) + 1 - i]]

\* the values a rate_coeff_func returns: finite ones, and the inf of an
\* expression such as '1e309'
ElasticRateCoeffs == { Fin(0), Fin(1), Fin(2), PInf }

\* model definitions with one reaction whose sides hold the same species
\* with the same coefficients, with or without the use_eedf flag, and no
\* flow_parameters
ElasticDefinitions ==
    { [species |-> species,
       reactions |-> << [formula |-> FormulaText(rx), use_eedf |-> flag, process |-> "",
                         rate_coeff |-> k, energy_loss |-> Fin(1)] >>] :
        rx \in { Rx(side, side, "V") : side \in ElasticSides }
                  \cup { Rx(side, Reversed(side), "V") : side \in ElasticSides },
        flag \in BOOLEAN, k \in ElasticRateCoeffs }

\* state vectors of positive densities, and an electron energy density
PositiveStates ==
    { << a, ap, e, 3 >> : a \in 1..3, ap \in 1..2, e \in 1..3 }

\* one call _ode_system(t, y) by the solver: EEDF disabled, declarations
\* that succeed, no power input
ElasticEvaluation(y) ==
    /\ model.status = "ok"
    /\ LET rate_coeff == [r \in DOMAIN mdef.reactions |-> mdef.reactions[r].rate_coeff]
           energy_loss == [r \in DOMAIN mdef.reactions |-> mdef.reactions[r].energy_loss]
       IN  sol_dy' = Derivatives(model, 0, y, eedf_results, rate_coeff, energy_loss, Fin(0))
    /\ sol_y' = y
    /\ UNCHANGED << sol_prev, engineVars, compilerVars, constructionVars, loaderVars, runVars, flowVars, builderVars, tableVars, contextVars >>

ElasticInit ==
    /\ ContextIdle
    /\ TablesIdle
    /\ BuilderIdle
    /\ FlowIdle
    /\ RunIdle
    /\ EngineIdle
    /\ CompilerIdle
    /\ LoaderIdle
    /\ mdef \in ElasticDefinitions
    /\ written = << >>
    /\ model = GlobalModel(mdef)
    /\ SolverIdle

ElasticNext == \E y \in PositiveStates : ElasticEvaluation(y)

ElasticSpec == ElasticInit /\ [][ElasticNext]_vars

----------------------------------------------------------------------------
(* run(): get_initial_conditions, then the integration *)

\* iv.get('p', iv.get('pressure', 10.0)) and iv.get('Te_eV', 2.0)
DefaultPressure == 10
DefaultTe == 2

\* mdef['constant_data']['Th_K'], the unit of the temperatures
Th_K == 1

\* q_e / kb, in units of Th_K per eV
KelvinPerEv == 2

\* the pressure setting: 'p', else 'pressure', else the default
p_Pa(iv) ==
    IF "p" \in DOMAIN iv.settings THEN iv.settings["p"]
    ELSE IF "pressure" \in DOMAIN iv.settings THEN iv.settings["pressure"]
    ELSE DefaultPressure

Te_eV_init(iv) == IF "Te_eV" \in DOMAIN iv.settings THEN iv.settings["Te_eV"] ELSE DefaultTe

Te_K_init(iv) == Te_eV_init(iv) * KelvinPerEv

\* y0[i] of a species other than the first: its seed, else zero
SeedDensity(self_species, iv, i) ==
    IF i > 1 /\ self_species[i] \in DOMAIN iv.seeds THEN iv.seeds[self_species[i]] ELSE 0

\* the loop of get_initial_conditions: kb is the unit of the pressures; the
\* first species is skipped, the electrons count at Te_K_init
RECURSIVE partial_pressure_of_minors(_, _, _)
partial_pressure_of_minors(self_species, iv, i) ==
    IF i > Len(self_species) THEN 0
    ELSE (IF i = 1 THEN 0
          ELSE IF i = SpeciesIndex(self_species, << "e" >>)
          THEN SeedDensity(self_species, iv, i) * Te_K_init(iv)
          ELSE SeedDensity(self_species, iv, i) * Th_K)
         + partial_pressure_of_minors(self_species, iv, i + 1)

pressure_for_background_gas(self_species, iv) ==
    p_Pa(iv) - partial_pressure_of_minors(self_species, iv, 1)

\* the vector of get_initial_conditions when it raises nothing: the
\* background gas fills the pressure left, the energy density is 3/2 ne Te
\* (counted in halves of an eV)
InitialVector(self_species, iv) ==
    [i \in 1..(Len(self_species) + 1) |->
        IF i = 1 THEN pressure_for_background_gas(self_species, iv) \div Th_K
        ELSE IF i = Len(self_species) + 1
        THEN 3 * SeedDensity(self_species, iv, SpeciesIndex(self_species, << "e" >>)) * Te_eV_init(iv)
        ELSE SeedDensity(self_species, iv, i)]

\* initial conditions taken without the test of the pressure left
InitialConditionsUnchecked(self_species, iv) ==
    [status |-> "ok", y0 |-> InitialVector(self_species, iv)]

\* get_initial_conditions
get_initial_conditions(self_species, iv) ==
    IF pressure_for_background_gas(self_species, iv) < 0
    THEN [status |-> "ValueError", y0 |-> << >>]
    ELSE [status |-> "ok", y0 |-> InitialVector(self_species, iv)]

\* mdef['initial_values'] of the modelled case: a total pressure under 'p',
\* under 'pressure' or left to the default, seeds for some of the species,
\* the background gas among them, and an initial electron temperature
InitialValues ==
    { [settings |-> settings, seeds |-> seeds] :
        settings \in { << >>, [p |-> 6], [pressure |-> 6], [p |-> 6, Te_eV |-> 1],
                       [p |-> 8, pressure |-> 2] },
        seeds \in { [s \in { << "e" >> } |-> 1],
                    [s \in { << "A", "+" >>, << "e" >> } |-> 2],
                    [s \in { << "A" >>, << "A", "+" >>, << "e" >> } |-> 3],
                    [s \in { << "A", "+" >>, << "e" >> } |-> 4] } }

\* run(), line 430: y0_final = self.get_initial_conditions()
RunStarts ==
    /\ run_pc = "new"
    /\ LET initial == get_initial_conditions(species, initial_values)
       IN  /\ run_pc' = IF initial.status = "ok" THEN "integrating" ELSE initial.status
           /\ y0' = initial.y0
    /\ UNCHANGED << initial_values, results, engineVars, compilerVars, constructionVars,
                   loaderVars, solverVars, flowVars, builderVars, tableVars, contextVars >>

\* solve_ivp is calling self._ode_system
RunEvaluates ==
    /\ run_pc = "integrating"
    /\ Next

\* solve_ivp returns and self.results is assigned, or the exception of an
\* evaluation leaves run() with self.results as it was
RunEnds ==
    /\ run_pc = "integrating"
    /\ pc = "idle"
    /\ IF ret.kind = "raise"
       THEN run_pc' = ret.exc /\ results' = results
       ELSE run_pc' = "returned" /\ results' = "OdeResult"
    /\ UNCHANGED << initial_values, y0, engineVars, compilerVars, constructionVars,
                   loaderVars, solverVars, flowVars, builderVars, tableVars, contextVars >>

\* a GlobalModel with an EEDF configuration, before run() is called
RunInit ==
    /\ ContextIdle
    /\ TablesIdle
    /\ BuilderIdle
    /\ FlowIdle
    /\ eedf_enabled \in BOOLEAN
    /\ eedf_backend = "loki"
    /\ eedf_timestamps = << 0, 3 >>
    /\ debug = FALSE
    /\ eedf_results = << >>
    /\ debug_step_counter = 0
    /\ pc = "idle"
    /\ frame = NoFrame
    /\ invoked = << >>
    /\ last_run = NoRun
    /\ ret = NoRet
    /\ rate_src = << >>
    /\ diag = {}
    /\ CompilerIdle
    /\ ConstructionIdle
    /\ LoaderIdle
    /\ SolverIdle
    /\ initial_values \in InitialValues
    /\ run_pc = "new"
    /\ y0 = << >>
    /\ results = "None"

RunNext == RunStarts \/ RunEvaluates \/ RunEnds

RunSpec == RunInit /\ [][RunNext]_vars

----------------------------------------------------------------------------
(* The flow and pumping terms of _ode_system *)

\* exact quotients: n / d with d > 0
Rat(n, d) == [n |-> n, d |-> d]

RatAdd(a, b) == Rat(a.n * b.d + b.n * a.d, a.d * b.d)

RatEq(a, b) == a.n * b.d = b.n * a.d

RECURSIVE RatSum(_)
RatSum(s) == IF s = << >> THEN Rat(0, 1) ELSE RatAdd(Head(s), RatSum(Tail(s)))

\* the factors of the conversion of sccm to m^3/s (6e7) and the standard
\* pressure (101325 Pa), in the units of the model
SccmPerM3s == 2
StandardPressure == 3

\* constant_data['mass_A'], the mass of A and of A+ (its key drops the sign),
\* and const['m_e']
HeavyMass == 4
ElectronMass == 1

\* '+' not in species_name and '-' not in species_name and species_name != 'e'
IsNeutral(name) ==
    /\ \A i \in DOMAIN name : name[i] \notin { "+", "-" }
    /\ name # << "e" >>

\* src/global_model.py: k_pump = 1 / tau_res, tau_res = volume / Q,
\* Q = flow_sccm / 6e7 * (101325 / pressure)
k_pump(fp) ==
    IF fp.flow_rate_sccm > 0
    THEN Rat(fp.flow_rate_sccm * StandardPressure, SccmPerM3s * fp.pressure * fp.volume)
    ELSE Rat(0, 1)

\* src/global_model.py: dY_dt[i] -= k_pump * densities[i] for the neutrals
ResidenceSinks(self_species, fp, densities) ==
    [i \in DOMAIN self_species |->
        IF IsNeutral(self_species[i])
        THEN Rat(k_pump(fp).n * densities[i], k_pump(fp).d)
        ELSE Rat(0, 1)]

\* src/global_model.py: dY_dt[feedstock_idx] += total_neutral_density * k_pump
ResidenceSources(self_species, fp, densities) ==
    LET feedstock_idx == SpeciesIndex(self_species, fp.feedstock_gas)
        total_neutral_density ==
            SumSeq([i \in DOMAIN self_species |->
                        IF IsNeutral(self_species[i]) THEN densities[i] ELSE 0])
    IN  [i \in DOMAIN self_species |->
            IF i = feedstock_idx
            THEN Rat(total_neutral_density * k_pump(fp).n, k_pump(fp).d)
            ELSE Rat(0, 1)]

\* the mass of species i: const['m_e'], or constant_data[mass_key]
mass_i(self_species, i) == IF self_species[i] = << "e" >> THEN ElectronMass ELSE HeavyMass

\* rho: the mass density
rho(self_species, densities) ==
    SumSeq([i \in DOMAIN self_species |-> densities[i] * mass_i(self_species, i)])

\* p_current: densities[i] * kb * Th_K for the heavy particles, and for the
\* electrons densities[e] * kb * Te_eV * q_e / kb with Te_eV = 2/3 of the
\* energy density over the electron density
p_current(self_species, densities, energy) ==
    Rat(3 * SumSeq([i \in DOMAIN self_species |->
                        IF self_species[i] = << "e" >> THEN 0 ELSE densities[i] * Th_K])
          + 2 * energy * KelvinPerEv,
        3)

\* p_ratio = p_current / p_target if p_target > 0 else 1.0
p_ratio(fp, pressure) ==
    IF fp.target_pressure_Pa > 0
    THEN Rat(pressure.n, pressure.d * fp.target_pressure_Pa)
    ELSE Rat(1, 1)

\* vA_div_V = (Q_in_tot_kg_per_s / rho) * p_ratio / volume
vA_div_V(self_species, fp, densities, energy) ==
    LET ratio == p_ratio(fp, p_current(self_species, densities, energy))
    IN  Rat(fp.total_mass_flow_kg_s * ratio.n,
            rho(self_species, densities) * ratio.d * fp.volume)

\* src/src/global_model.py: dY_dt[i] -= densities[i] * vA_div_V, all species
PressureSinks(self_species, fp, densities, energy) ==
    LET v == vA_div_V(self_species, fp, densities, energy)
    IN  [i \in DOMAIN self_species |-> Rat(densities[i] * v.n, v.d)]

\* src/src/global_model.py: dY_dt[idx] += inflow_mass_kg_s[i] / mass_i / volume
\* for the inflow species (indices counted from 0)
PressureSources(self_species, fp) ==
    [i \in DOMAIN self_species |->
        RatSum([n \in DOMAIN fp.inflow_species_indices |->
                    IF fp.inflow_species_indices[n] + 1 = i
                    THEN Rat(fp.inflow_mass_kg_s[n], mass_i(self_species, i) * fp.volume)
                    ELSE Rat(0, 1)])]

\* flow_parameters of the residence-time flow: a flow rate, the feedstock
\* gas, with the pressure and the volume
ResidenceFlows ==
    { [flow_rate_sccm |-> f, feedstock_gas |-> << "A" >>, pressure |-> p, volume |-> v] :
        f \in 1..2, p \in 1..2, v \in 1..2 }

\* flow_parameters of the pressure-controlled flow: the whole mass flow
\* enters as the feedstock gas A
PressureFlows ==
    { [target_pressure_Pa |-> p, total_mass_flow_kg_s |-> q,
       inflow_species_indices |-> << 0 >>, inflow_mass_kg_s |-> << q >>, volume |-> v] :
        p \in { 0, 6, 12 }, q \in { 4, 8 }, v \in 1..2 }

\* state vectors of the flow evaluations
FlowStates == { << a, ap, e, en >> : a \in { 0, 2, 4 }, ap \in 1..2, e \in 1..2, en \in { 3, 6 } }

\* the flow branch of one call _ode_system(t, y)
FlowEvaluation(y) ==
    /\ flow_mode # "none"
    /\ LET densities == Densities(y)
           energy == ElectronEnergyDensity(y)
       IN  IF flow_mode = "residence"
           THEN /\ flow_sinks' = ResidenceSinks(species, flow_parameters, densities)
                /\ flow_sources' = ResidenceSources(species, flow_parameters, densities)
           ELSE /\ flow_sinks' = PressureSinks(species, flow_parameters, densities, energy)
                /\ flow_sources' = PressureSources(species, flow_parameters)
    /\ sol_y' = y
    /\ UNCHANGED << flow_mode, flow_parameters, sol_prev, sol_dy, engineVars, compilerVars,
                   constructionVars, loaderVars, runVars, builderVars, tableVars, contextVars >>

FlowInit ==
    /\ ContextIdle
    /\ TablesIdle
    /\ BuilderIdle
    /\ EngineIdle
    /\ CompilerIdle
    /\ ConstructionIdle
    /\ LoaderIdle
    /\ SolverIdle
    /\ RunIdle
    /\ \/ flow_mode = "residence" /\ flow_parameters \in ResidenceFlows
       \/ flow_mode = "pressure" /\ flow_parameters \in PressureFlows
    /\ flow_sinks = << >>
    /\ flow_sources = << >>

FlowNext == \E y \in FlowStates : FlowEvaluation(y)

FlowSpec == FlowInit /\ [][FlowNext]_vars

----------------------------------------------------------------------------
(* build_model_definition: load_chemistry on every file, and the merge *)

\* rxn.get(key, default)
EntryGet(rxn, key, default) == IF key \in DOMAIN rxn THEN rxn[key] ELSE default

\* the loop of load_chemistry over chem['reactions']: the dictionary it
\* appends for one reaction entry
LoadedReaction(rxn) ==
    [formula |-> rxn.formula,
     rate_coeff_func |-> _build_lambda(rxn.rate_coeff),
     energy_loss_func |-> _build_lambda(rxn.energy_loss),
     type |-> EntryGet(rxn, "type", "volume"),
     reference |-> EntryGet(rxn, "reference", "")]

\* load_chemistry(chemistry_path): species_list and reactions_list, or the
\* ValueError of a species without a mass or of an expression not compiled
load_chemistry(chem) ==
    LET species_list == [i \in DOMAIN chem.species |-> chem.species[i].name]
        reactions_list == [i \in DOMAIN chem.reactions |-> LoadedReaction(chem.reactions[i])]
    IN  IF \/ \E i \in DOMAIN chem.species : LoadedSpecies(chem.species[i]).status # "ok"
           \/ \E i \in DOMAIN reactions_list :
                \/ reactions_list[i].rate_coeff_func.status # "ok"
                \/ reactions_list[i].energy_loss_func.status # "ok"
        THEN [status |-> "ValueError", species |-> << >>, reactions |-> << >>]
        ELSE [status |-> "ok", species |-> species_list, reactions |-> reactions_list]

\* every name appended, seen before or not
AppendedUnseen(all_species, names) == all_species \o names

\* for s in species: if s not in all_species: all_species.append(s)
RECURSIVE AppendUnseen(_, _)
AppendUnseen(all_species, names) ==
    IF names = << >> THEN all_species
    ELSE AppendUnseen(IF Head(names) \in Range(all_species) THEN all_species
                      ELSE Append(all_species, Head(names)),
                      Tail(names))

\* the loop of build_model_definition over config['chemistry_files'], from
\* file i on; an exception of load_chemistry ends it
RECURSIVE MergeFrom(_, _, _, _)
MergeFrom(files, i, all_species, all_reactions) ==
    IF i > Len(files)
    THEN [status |-> "ok", species |-> all_species, reactions |-> all_reactions]
    ELSE LET chem == load_chemistry(files[i])
         IN  IF chem.status # "ok" THEN [status |-> chem.status]
             ELSE MergeFrom(files, i + 1, AppendUnseen(all_species, chem.species),
                            all_reactions \o chem.reactions)

\* build_model_definition(config_path): model_definition['species'] and
\* model_definition['reactions']
build_model_definition(files) == MergeFrom(files, 1, << >>, << >>)

\* the longest list of chemistry files of a configuration
MaxFiles == 3

\* entries of chem['reactions']: plain ones, and one marked EEDF-driven with
\* its process identifier
ElasticO2Entry ==
    [formula |-> << "e", " ", "+", " ", "O", "2", " ", "-", ">", " ", "e", " ", "+", " ", "O", "2" >>,
     rate_coeff |-> StrExpr(<< "2", ".", "0" >>), energy_loss |-> NumExpr(Fin(2))]

IonizationOEntry ==
    [formula |-> << "e", " ", "+", " ", "O", " ", "-", ">", " ", "O", "+", " ", "+", " ", "2", "e" >>,
     rate_coeff |-> StrExpr(<< "T", "e" >>), energy_loss |-> StrExpr(<< "3" >>),
     type |-> "volume", use_eedf |-> TRUE, process |-> "ion"]

WallEntry ==
    [formula |-> << "O", "+", " ", "-", ">", " ", "O" >>,
     rate_coeff |-> StrExpr(<< "3" >>), energy_loss |-> NumExpr(Fin(2)),
     type |-> "wall", use_eedf |-> FALSE]

UncompiledEntry ==
    [formula |-> << "O", " ", "-", ">", " ", "O" >>,
     rate_coeff |-> StrExpr(<< "3", " ", ">", " ", "3" >>), energy_loss |-> NumExpr(Fin(2))]

Entry(name) == [name |-> name, mass_amu |-> NoMass]

\* chemistry files: species in common between files, a species listed twice
\* in one file, a reaction listed in two files, a file without reactions, a
\* file with a species of no mass, a file with an expression that is rejected
ChemistryFilePool ==
    { [species |-> << Entry(<< "O", "2" >>), Entry(<< "e" >>) >>,
       reactions |-> << ElasticO2Entry >>],
      [species |-> << Entry(<< "O" >>), Entry(<< "O", "+" >>), Entry(<< "e" >>) >>,
       reactions |-> << IonizationOEntry, WallEntry >>],
      [species |-> << Entry(<< "e" >>), Entry(<< "O" >>), Entry(<< "e" >>), Entry(<< "O", "2" >>) >>,
       reactions |-> << WallEntry, ElasticO2Entry >>],
      [species |-> << Entry(<< "A", "r" >>) >>, reactions |-> << >>],
      [species |-> << Entry(<< "Q" >>) >>, reactions |-> << ElasticO2Entry >>],
      [species |-> << Entry(<< "O" >>) >>, reactions |-> << UncompiledEntry >>] }

Configurations == UNION { [1..n -> ChemistryFilePool] : n \in 1..MaxFiles }

BuildModelDefinition ==
    /\ built.status = "none"
    /\ built' = build_model_definition(chemistry_files)
    /\ UNCHANGED << chemistry_files, engineVars, compilerVars, constructionVars, loaderVars,
                   solverVars, runVars, flowVars, tableVars, contextVars >>

BuilderInit ==
    /\ ContextIdle
    /\ TablesIdle
    /\ EngineIdle
    /\ CompilerIdle
    /\ ConstructionIdle
    /\ LoaderIdle
    /\ SolverIdle
    /\ RunIdle
    /\ FlowIdle
    /\ chemistry_files \in Configurations
    /\ built = [status |-> "none"]

BuilderNext == BuildModelDefinition

BuilderSpec == BuilderInit /\ [][BuilderNext]_vars

----------------------------------------------------------------------------
(* LokiBSolver.build_rate_function: the rate tables and their cache files *)

\* k = max(k, 1e-30): the least rate coefficient of a table, the unit of the
\* rate coefficients here
MinRate == 1

\* result.get("rate_coefficient", 0.0) when the output names no rate
NoRate == 0

\* cache_key, which the name of the table file is a hash of
CacheKey(reaction_id, cross_section_file, te_range) ==
    [reaction |-> reaction_id, xs_file |-> cross_section_file, te_range |-> te_range]

\* input_data, which the names of the input and output files are a hash of
InputKey(reaction_id, cross_section_file, te) ==
    [reaction |-> reaction_id, xs_file |-> cross_section_file, Te_eV |-> te]

\* float(np.log(k)) and float(np.exp(logk)), on rate coefficients k > 0
Log(k) == [log |-> k]
Exp(logk) == logk.log

\* how a run of the executable ends: an output with a rate coefficient, an
\* output without one, a non-zero exit status or a time-out, an exit status 0
\* without an output file
RunOutcomes == { [kind |-> "output", k |-> 3], [kind |-> "output", k |-> NoRate],
                 [kind |-> "failed", k |-> NoRate], [kind |-> "no_output", k |-> NoRate] }

\* how np.savez ends: the file written, an exception before any file exists,
\* an exception that leaves a file np.load cannot read
SaveOutcomes == { "written", "failed", "partial" }

\* _run_loki on the input of (reaction, cross-section file, te): the output
\* file is returned when it exists, else the executable runs
RunsExecutable(outputs, input_key) == input_key \notin DOMAIN outputs

\* the loop of _compute_table from the i-th temperature on: the logk values,
\* the output files, the number of runs of the executable, or the exception
RECURSIVE ComputeFrom(_, _, _, _, _, _, _)
ComputeFrom(reaction_id, cross_section_file, te_range, i, outputs, runs, outcomes) ==
    IF i > Len(te_range)
    THEN [status |-> "ok", logk |-> << >>, outputs |-> outputs, runs |-> runs]
    ELSE LET input_key == InputKey(reaction_id, cross_section_file, te_range[i])
             runs_now == RunsExecutable(outputs, input_key)
             outcome == outcomes[i]
         IN  IF runs_now /\ outcome.kind = "failed"
             THEN [status |-> "RuntimeError", logk |-> << >>, outputs |-> outputs, runs |-> runs + 1]
             ELSE IF runs_now /\ outcome.kind = "no_output"
             THEN [status |-> "FileNotFoundError", logk |-> << >>, outputs |-> outputs, runs |-> runs + 1]
             ELSE LET new_outputs == IF runs_now
                                 THEN [key \in DOMAIN outputs \cup { input_key } |->
                                          IF key = input_key THEN outcome.k ELSE outputs[key]]
                                 ELSE outputs
                      k == IF new_outputs[input_key] > MinRate THEN new_outputs[input_key] ELSE MinRate
                      rest == ComputeFrom(reaction_id, cross_section_file, te_range, i + 1,
                                          new_outputs, IF runs_now THEN runs + 1 ELSE runs, outcomes)
                  IN  [rest EXCEPT !.logk = << Log(k) >> \o rest.logk]

\* _compute_table: the table, and the table file after np.savez
_compute_table(reaction_id, cross_section_file, te_range, tables, outputs, outcomes, save) ==
    LET computed == ComputeFrom(reaction_id, cross_section_file, te_range, 1, outputs, 0, outcomes)
        cache_key == CacheKey(reaction_id, cross_section_file, te_range)
        table == [te |-> te_range, logk |-> computed.logk]
        saved == IF save = "written" THEN table ELSE [te |-> << >>, logk |-> << >>]
    IN  IF computed.status # "ok"
        THEN [status |-> computed.status, table |-> [te |-> << >>, logk |-> << >>],
              tables |-> tables, outputs |-> computed.outputs, runs |-> computed.runs,
              wrote |-> FALSE]
        ELSE [status |-> "ok", table |-> table,
              tables |-> IF save = "failed" THEN tables
                         ELSE [key \in DOMAIN tables \cup { cache_key } |->
                                  IF key = cache_key THEN saved ELSE tables[key]],
              outputs |-> computed.outputs, runs |-> computed.runs,
              wrote |-> save # "failed"]

\* np.load(cache_file) gives the arrays te and logk
Loads(file) == file.te # << >>

\* a test of the cache file that never finds it
UsesCacheNever(tables, cache_key, force_recompute) == FALSE

\* if cache_file.exists() and not force_recompute, and np.load raises nothing
UsesCache(tables, cache_key, force_recompute) ==
    cache_key \in DOMAIN tables /\ ~force_recompute /\ Loads(tables[cache_key])

\* build_rate_function: the cached table when its file exists, loads and
\* force_recompute is not set, else _compute_table
build_rate_function(reaction_id, cross_section_file, te_range, force_recompute, tables, outputs, outcomes, save) ==
    LET cache_key == CacheKey(reaction_id, cross_section_file, te_range)
    IN  IF UsesCache(tables, cache_key, force_recompute)
        THEN [status |-> "ok", table |-> tables[cache_key], tables |-> tables,
              outputs |-> outputs, runs |-> 0, wrote |-> FALSE]
        ELSE _compute_table(reaction_id, cross_section_file, te_range, tables, outputs,
                            outcomes, save)

\* rate_func(p) at the temperatures of the table: exp of the logk there
RatesOf(table) == [i \in DOMAIN table.logk |-> Exp(table.logk[i])]

\* the arguments of the calls
ReactionIds == { "e + O2 -> O2+ + 2 e" }
CrossSectionFiles == { "O2_LXCat.txt" }
TeRanges == { << 1 >>, << 1, 2 >> }

\* one call of build_rate_function
BuildRateFunction(reaction_id, cross_section_file, te_range, force_recompute, outcomes, save) ==
    LET call == build_rate_function(reaction_id, cross_section_file, te_range, force_recompute,
                                    table_files, output_files, outcomes, save)
    IN  /\ table_files' = call.tables
        /\ output_files' = call.outputs
        /\ last_build' = [status |-> call.status,
                          cache_key |-> CacheKey(reaction_id, cross_section_file, te_range),
                          force_recompute |-> force_recompute,
                          cached_before |->
                              LET cache_key == CacheKey(reaction_id, cross_section_file, te_range)
                              IN  cache_key \in DOMAIN table_files /\ Loads(table_files[cache_key]),
                          runs |-> call.runs,
                          wrote |-> call.wrote,
                          rates |-> RatesOf(call.table)]
        /\ UNCHANGED << engineVars, compilerVars, constructionVars, loaderVars, solverVars,
                       runVars, flowVars, builderVars, contextVars >>

TablesInit ==
    /\ ContextIdle
    /\ EngineIdle
    /\ CompilerIdle
    /\ ConstructionIdle
    /\ LoaderIdle
    /\ SolverIdle
    /\ RunIdle
    /\ FlowIdle
    /\ BuilderIdle
    /\ table_files = << >>
    /\ output_files = << >>
    /\ last_build = NoBuild

TablesNext ==
    \E reaction_id \in ReactionIds, cross_section_file \in CrossSectionFiles,
       te_range \in TeRanges, force_recompute \in BOOLEAN,
       outcomes \in [1..2 -> RunOutcomes], save \in SaveOutcomes :
        BuildRateFunction(reaction_id, cross_section_file, te_range, force_recompute, outcomes, save)

TablesSpec == TablesInit /\ [][TablesNext]_vars

----------------------------------------------------------------------------
(* _ode_system: the physical boundaries and the evaluation context *)

\* a context that keeps the electron temperature of the evaluation before
ParamsKept(self, previous, t, y) ==
    IF previous = NoParams
    THEN [Te_eV |-> Rat(2 * ElectronEnergyDensity(y),
                        3 * Densities(y)[SpeciesIndex(self.species, << "e" >>)]),
          densities |-> Densities(y), Y |-> << 0 >> \o Densities(y), t |-> t,
          na |-> SumSeq(Densities(y))]
    ELSE [previous EXCEPT !.densities = Densities(y), !.Y = << 0 >> \o Densities(y), !.t = t,
                          !.na = SumSeq(Densities(y))]

\* the clamps, Te_eV = (2.0 / 3.0) * electron_energy_density / ne_density,
\* and the params dictionary; previous is the context of the evaluation before
Params(self, previous, t, y) ==
    LET densities == Densities(y)
        electron_energy_density == ElectronEnergyDensity(y)
        ne_density == densities[SpeciesIndex(self.species, << "e" >>)]
    IN  [Te_eV |-> Rat(2 * electron_energy_density, 3 * ne_density),
         densities |-> densities,
         Y |-> << 0 >> \o densities,
         t |-> t,
         na |-> SumSeq(densities)]

\* state vectors the solver may hand over: entries that are negative, zero,
\* under the floor, at it and above it
AnyStates ==
    { << a, ap, e, en >> : a \in { 0, 2 }, ap \in { -1, 2 }, e \in { -2, 0, 1, 3 },
                           en \in { -2, 0, 1, 3 } }

\* one call _ode_system(t, y) without EEDF: the context, then the NaN
\* sentinel when the declarations fail, else the derivatives
ContextEvaluation(t, y, decl) ==
    /\ model.status = "ok"
    /\ params' = Params(model, params, t, y)
    /\ sol_y' = y
    /\ LET rate_coeff == [r \in DOMAIN mdef.reactions |-> mdef.reactions[r].rate_coeff]
           energy_loss == [r \in DOMAIN mdef.reactions |-> mdef.reactions[r].energy_loss]
       IN  sol_dy' = IF decl \in { "ValueError", "ZeroDivisionError" }
                     THEN DeclarationsFailed(y).vec
                     ELSE Derivatives(model, t, y, eedf_results, rate_coeff, energy_loss, Fin(0))
    /\ UNCHANGED << sol_prev, engineVars, compilerVars, constructionVars, loaderVars, runVars,
                   flowVars, builderVars, tableVars >>

ContextInit ==
    /\ EngineIdle
    /\ CompilerIdle
    /\ LoaderIdle
    /\ RunIdle
    /\ FlowIdle
    /\ BuilderIdle
    /\ TablesIdle
    /\ mdef \in IonizationDefinitions
    /\ written = << >>
    /\ model = GlobalModel(mdef)
    /\ SolverIdle
    /\ params = NoParams

ContextNext ==
    \E t \in Times, y \in AnyStates, decl \in { "ok", "ValueError", "ZeroDivisionError" } :
        ContextEvaluation(t, y, decl)

ContextSpec == ContextInit /\ [][ContextNext]_vars

----------------------------------------------------------------------------
(* Claims about the EEDF cache and the evaluation *)

\* the timestamps run_eedf is called for in a step
NewlyInvoked ==
    IF pc = "idle" THEN Range(invoked')
    ELSE { invoked'[n] : n \in (Len(invoked) + 1)..Len(invoked') }

\* a backend call of the last evaluation failed: no backend for the configured
\* name, no binary, no input file, or a non-zero exit status
BackendFailed ==
    \/ last_run.stage \in { "null_backend", "no_binary", "no_lxcat" }
    \/ last_run.stage = "exited" /\ last_run.rc # 0

\* C1: once a response is stored for a timestamp ts, no later step of any
\* evaluation calls the backend for ts, and the response stored for ts is
\* neither replaced nor removed.
C1_CacheIdempotent ==
    [][\A ts \in DOMAIN eedf_results :
          /\ ts \notin NewlyInvoked
          /\ ts \in DOMAIN eedf_results'
          /\ eedf_results'[ts] = eedf_results[ts]]_vars

\* a second completed evaluation at a cached trigger timestamp, which called
\* no backend and read its rate from the entry cached for that timestamp
C1_Witness ==
    /\ pc = "idle" /\ ret.kind = "value" /\ debug_step_counter >= 2
    /\ frame.t \in Range(eedf_timestamps)
    /\ frame.t \in DOMAIN eedf_results
    /\ invoked = << >>
    /\ rate_src[1].src = "entry" /\ rate_src[1].ts = frame.t

\* C2: the backend is called in an evaluation at time t only when EEDF is
\* enabled and for a declared timestamp within the tolerance of t; every key
\* of the cache is a declared timestamp.
C2_TriggerOnlyAtDeclared ==
    /\ \A n \in DOMAIN invoked :
          /\ eedf_enabled
          /\ invoked[n] \in Range(eedf_timestamps)
          /\ Abs(frame.t - invoked[n]) < Tol
    /\ DOMAIN eedf_results \subseteq Range(eedf_timestamps)

\* an evaluation near (not at) a declared timestamp called the backend and
\* its response was stored
C2_Witness ==
    /\ pc = "idle" /\ invoked # << >>
    /\ frame.t \notin Range(eedf_timestamps)
    /\ invoked[1] \in DOMAIN eedf_results

\* C3: a rate coefficient read from the cache at time t comes from the entry
\* with the greatest timestamp ts <= t (within the tolerance), and is exactly
\* that entry's coefficient for the reaction's process.
C3_StepHold ==
    (pc = "idle" /\ ret.kind = "value") =>
        \A r \in DOMAIN rate_src :
            rate_src[r].src = "entry" =>
                /\ rate_src[r].ts \in DOMAIN eedf_results
                /\ rate_src[r].ts <= frame.t + Tol
                /\ \A u \in DOMAIN eedf_results : u <= frame.t + Tol => u <= rate_src[r].ts
                /\ reactions[r].process \in
                      DOMAIN eedf_results[rate_src[r].ts].rate_coefficients
                /\ rate_src[r].k =
                      Fin(eedf_results[rate_src[r].ts].rate_coefficients[reactions[r].process])

\* the cache holds an entry later than t (beyond the tolerance) and one at or
\* before t, with different coefficients, and the rate was read from the earlier
C3_Witness ==
    /\ pc = "idle" /\ ret.kind = "value"
    /\ rate_src[1].src = "entry"
    /\ \E u \in DOMAIN eedf_results :
          /\ u > frame.t + Tol
          /\ eedf_results[u].type = "single"
          /\ "ion" \in DOMAIN eedf_results[u].rate_coefficients
          /\ Fin(eedf_results[u].rate_coefficients["ion"]) # rate_src[1].k

\* C4: when the LoKI-B process exits with status 0 but leaves no parsable
\* output.json and no usable eedf.txt, the backend call raises (it returns no
\* response).
C4_FailedSolveRaises ==
    ( /\ pc = "idle"
      /\ last_run.stage = "exited" /\ last_run.rc = 0
      /\ last_run.json \in { "missing", "unparsable" }
      /\ ~(last_run.eedf_txt /\ last_run.rows > 0) )
    => ret.kind = "raise"

\* C5: when a backend call for ts raises, _ode_system raises that error (no
\* NaN sentinel, no rates) and the cache has no entry for ts.
C5_BackendErrorPropagates ==
    (pc = "idle" /\ invoked # << >> /\ BackendFailed) =>
        /\ ret.kind = "raise"
        /\ ret.exc \in { "NotImplementedError", "FileNotFoundError", "ValueError",
                         "RuntimeError" }
        /\ ret.ts = invoked[Len(invoked)]
        /\ ret.ts \notin DOMAIN eedf_results
        /\ rate_src = << >>

\* the second backend call of one evaluation failed with a non-zero exit
\* status, after the first one was stored
C5_Witness ==
    /\ pc = "idle" /\ Len(invoked) = 2
    /\ last_run.stage = "exited" /\ last_run.rc # 0
    /\ invoked[1] \in DOMAIN eedf_results
    /\ ret.kind = "raise"

\* C6: whenever _ode_system waits for the external solver process, the wait
\* has a time-out.
C6_SubprocessHasTimeout == pc = "subprocess" => frame.timeout # NoTimeout

\* C7: when the declarations callable raises ValueError or ZeroDivisionError,
\* _ode_system returns a vector of num_species + 1 NaNs.
C7_DeclarationsFailureIsNaN ==
    (pc = "idle" /\ frame.decl \in { "ValueError", "ZeroDivisionError" }) =>
        /\ ret.kind = "nan"
        /\ Len(ret.vec) = num_species + 1
        /\ \A i \in DOMAIN ret.vec : ret.vec[i] = NaN

\* the declarations callable divided by zero in an evaluation
C7_Witness ==
    pc = "idle" /\ frame.decl = "ZeroDivisionError" /\ ret.kind = "nan"

\* C8: _ode_system never returns a derivative vector with a non-finite
\* component as a normal result.
C8_NonFiniteIsFatal ==
    (pc = "idle" /\ ret.kind = "value") =>
        \A i \in DOMAIN ret.vec : IsFinite(ret.vec[i])

\* C9: an EEDF-driven reaction whose process identifier is absent from the
\* selected response, or which has none, gets the rate zero and the
\* condition is flagged in the diagnostics of the evaluation.
C9_MissingProcessFlagged ==
    (pc = "idle" /\ ret.kind = "value") =>
        \A r \in DOMAIN rate_src :
            rate_src[r].src \in { "missing_process", "no_process" } =>
                /\ rate_src[r].k = Fin(0)
                /\ << "missing_process", r >> \in diag

----------------------------------------------------------------------------
(* Claims about the expression compiler *)

\* the names an expression may use
PermittedNames == { NameP, NameMath, NameExp, NameSqrt, NameLog }

\* the shorthands an expression is written with
Shorthands == { << "T", "e" >>, << "T", "g" >> }

\* func is the callee of one of the call forms p.get(...) and
\* math.<whitelisted function>(...)
PermittedCallForm(func) ==
    /\ func.node = "Attribute"
    /\ \/ IsName(func.value, NameP) /\ func.attr = NameGet
       \/ IsName(func.value, NameMath) /\ func.attr \in { NameExp, NameSqrt, NameLog }

\* the expression a chain of subscripts starts from
RECURSIVE RootOf(_)
RootOf(node) == IF node.node = "Subscript" THEN RootOf(node.value) ELSE node

\* the tree has an import call, an attribute access other than the two call
\* forms, a subscript whose root is not p, or a name outside names
RECURSIVE HasForbidden(_, _, _)
HasForbidden(node, is_func, names) ==
    \/ node.node = "Call" /\ IsName(node.func, << "_", "_", "i", "m", "p", "o", "r", "t", "_", "_" >>)
    \/ node.node = "Attribute" /\ ~(is_func /\ PermittedCallForm(node))
    \/ node.node = "Subscript" /\ ~IsName(RootOf(node), NameP)
    \/ node.node = "Name" /\ node.id \notin names
    \/ \E i \in DOMAIN iter_child_nodes(node) :
          HasForbidden(iter_child_nodes(node)[i], node.node = "Call" /\ i = 1, names)

\* the text is an expression that has one of the forbidden constructs
TextHasForbidden(text, names) ==
    Parse(text).ok /\ HasForbidden(Parse(text).tree, FALSE, names)

\* C10 (as stated): an expression string that contains an import call, an
\* attribute access other than p.get(...) and math.<whitelisted>(...), a
\* subscript whose root is not p, or a name other than p, math, exp, sqrt, log
\* is rejected by _build_lambda with ValueError, and is never evaluated.
\* The shorthands Te and Tg count as permitted names of the written text.
C10_ForbiddenTextRejected ==
    (compiled.status # "none" /\ expr.kind = "str"
        /\ TextHasForbidden(expr.text, PermittedNames \cup Shorthands)) =>
        compiled.status = "ValueError" /\ fn_result.kind = "none"

\* C10 (amended): an expression string whose text after the replacement of
\* the shorthands Te and Tg contains one of these constructs is rejected by
\* _build_lambda with ValueError, and is never evaluated.
C10_ForbiddenRejectedAfterExpansion ==
    (compiled.status # "none" /\ expr.kind = "str"
        /\ TextHasForbidden(Processed(expr.text), PermittedNames)) =>
        compiled.status = "ValueError" /\ fn_result.kind = "none"

\* an expression with a shorthand and a subscript of an identifier other
\* than p was rejected for that subscript
C10_Witness ==
    /\ expr.kind = "str"
    /\ Processed(expr.text) # expr.text
    /\ TextHasForbidden(Processed(expr.text), PermittedNames)
    /\ compiled.status = "ValueError"
    /\ compiled.reason = "Only p[...] chained subscripts allowed"

\* "2.0 * Te + 3", "p['m']['a']", "p.get('z', 1)" and "p.get('a', 3)"
DocumentedExample == << "2", ".", "0", " ", "*", " ", "T", "e", " ", "+", " ", "3" >>
ChainedSubscript == << "p", "[", "'", "m", "'", "]", "[", "'", "a", "'", "]" >>
GetAbsent == << "p", ".", "g", "e", "t", "(", "'", "z", "'", ",", " ", "1", ")" >>
GetPresent == << "p", ".", "g", "e", "t", "(", "'", "a", "'", ",", " ", "3", ")" >>

\* the expression was compiled from text, and called
CompiledFrom(text) == expr = StrExpr(text) /\ compiled.status # "none"
CalledFrom(text) == expr = StrExpr(text) /\ fn_result.kind # "none"

\* C11: _build_lambda accepts "2.0 * Te + 3", and the callable returns
\* 2 * Te_eV + 3 in every context; it accepts a chained subscript of p and
\* p.get(key, default), which return the nested value of the context, and
\* the default when the context has no such key (the value when it has).
C11_DocumentedExpressions ==
    /\ \A text \in { DocumentedExample, ChainedSubscript, GetAbsent, GetPresent } :
          CompiledFrom(text) => compiled.status = "ok"
    /\ (CalledFrom(DocumentedExample) /\ ctx[KeyTe].k = "fin") =>
          fn_result = Returned(Fin(2 * ctx[KeyTe].v + 3))
    /\ (CalledFrom(ChainedSubscript) /\ << "m" >> \in DOMAIN ctx) =>
          fn_result = Returned(ctx[<< "m" >>].v[<< "a" >>])
    /\ (CalledFrom(GetAbsent) /\ << "z" >> \notin DOMAIN ctx) =>
          fn_result = Returned(IntVal(1))
    /\ (CalledFrom(GetPresent) /\ << "a" >> \in DOMAIN ctx) =>
          fn_result = Returned(ctx[<< "a" >>])

\* the documented example returned 2 * 2 + 3 in the context with Te_eV = 2
C11_Witness ==
    /\ CalledFrom(DocumentedExample)
    /\ ctx = CtxFull
    /\ fn_result = Returned(Fin(7))

\* the tree is a comparison whose operands pass the validation
ComparisonOfPermitted(tree) ==
    /\ tree.body.node = "Compare"
    /\ _validate(tree.body.left, FALSE) = ""
    /\ \A i \in DOMAIN tree.body.comparators :
          _validate(tree.body.comparators[i], FALSE) = ""

\* C12: an expression that is a comparison of operands the compiler accepts
\* (as "Te > 2.0") is accepted by _build_lambda and compiled to a callable.
C12_ComparisonAccepted ==
    (expr.kind = "str" /\ compiled.status # "none"
        /\ Parse(Processed(expr.text)).ok
        /\ ComparisonOfPermitted(Parse(Processed(expr.text)).tree)) =>
        compiled.status = "ok"

\* a name of names occurs in the tree as an identifier of its own
RECURSIVE UsesName(_, _)
UsesName(node, names) ==
    \/ node.node = "Name" /\ node.id \in names
    \/ \E i \in DOMAIN iter_child_nodes(node) : UsesName(iter_child_nodes(node)[i], names)

\* C13: an expression in which Te and Tg occur only inside a longer
\* identifier or inside a string key (as p['Te_eV']) is left unchanged by the
\* expansion of the shorthands: it compiles, and evaluates, as its own text.
C13_ShorthandOnlyBareIdentifier ==
    (expr.kind = "str" /\ compiled.status # "none"
        /\ Parse(expr.text).ok /\ ~UsesName(Parse(expr.text).tree, Shorthands)) =>
        /\ compiled.status = Parsed(Parse(expr.text)).status
        /\ fn_result.kind # "none" =>
              fn_result = CallFn(Parsed(Parse(expr.text)), ctx)

\* C14: an expression that uses the shorthand Tg returns a value, and raises
\* nothing, in a context that has no Tg_K entry.
C14_GasTemperatureDefault ==
    (expr.kind = "str" /\ fn_result.kind # "none"
        /\ Parse(expr.text).ok /\ UsesName(Parse(expr.text).tree, { << "T", "g" >> })
        /\ KeyTg \notin DOMAIN ctx) =>
        fn_result.exc # "KeyError"

----------------------------------------------------------------------------
(* Claims about the stoichiometric matrices *)

\* the coefficient the written side gives the species name: its terms of
\* that name, summed
WrittenCoeff(side, name) ==
    SumSeq([i \in DOMAIN side |-> IF side[i].name = name THEN side[i].n ELSE 0])

\* the orders the terms of a side can be written in
Orders(side) ==
    { [i \in DOMAIN side |-> side[f[i]]] :
        f \in { g \in [DOMAIN side -> DOMAIN side] :
                  \A i, j \in DOMAIN side : g[i] = g[j] => i = j } }

\* C15: a constructed model has the species of its definition in their
\* order, both matrices have one row per reaction and one column per
\* species, left[r][s] is the reactant coefficient of species[s] in reaction
\* r, and net[r][s] is its product coefficient minus its reactant coefficient.
C15_StoichMatrices ==
    model.status = "ok" =>
        /\ model.species = mdef.species
        /\ model.num_species = Len(mdef.species)
        /\ DOMAIN model.stoich_matrix_net = DOMAIN mdef.reactions
        /\ DOMAIN model.stoich_matrix_left = DOMAIN mdef.reactions
        /\ \A r \in DOMAIN written :
              /\ DOMAIN model.stoich_matrix_net[r] = DOMAIN mdef.species
              /\ DOMAIN model.stoich_matrix_left[r] = DOMAIN mdef.species
              /\ \A s \in DOMAIN mdef.species :
                    /\ model.stoich_matrix_left[r][s] = WrittenCoeff(written[r].lhs, mdef.species[s])
                    /\ model.stoich_matrix_net[r][s] =
                          WrittenCoeff(written[r].rhs, mdef.species[s])
                          - WrittenCoeff(written[r].lhs, mdef.species[s])

\* the oxygen model was constructed; the row of e + O2 -> O2+ + 2e loses an
\* O2 and gains an O2+ and an electron
C15_Witness ==
    /\ model.status = "ok"
    /\ mdef = Definition(OxygenSpecies, OxygenReactions)
    /\ model.stoich_matrix_net[2] = << -1, 1, 0, 0, 0, 1 >>

\* C16: the coefficient vector of a side is the same in whatever order its
\* terms are written, repeated terms add up, and a term naming a species,
\* with or without a coefficient, counts for that species alone, also when
\* the name of another species is a prefix or a suffix of its name.
C16_ParseOrderIndependent ==
    model.status = "ok" =>
        \A r \in DOMAIN written :
            /\ \A side \in Orders(written[r].lhs) :
                  _parse_formula(model.species, SideText(side)) = model.stoich_matrix_left[r]
            /\ \A i \in DOMAIN written[r].lhs :
                  LET name == written[r].lhs[i].name
                      alone == _parse_formula(model.species, TermText(written[r].lhs[i]))
                  IN  name \in Range(model.species) =>
                         \A s \in DOMAIN model.species :
                            alone[s] = IF model.species[s] = name
                                       THEN written[r].lhs[i].n ELSE 0

\* "O + 2O2+" was parsed: one O, two O2+, no O2
C16_Witness ==
    /\ model.status = "ok"
    /\ mdef.species = OxygenSpecies
    /\ Len(written) = 1
    /\ written[1].lhs = << T(1, << "O" >>), T(2, << "O", "2", "+" >>) >>
    /\ model.stoich_matrix_left[1] = << 0, 2, 1, 0, 0, 0 >>

\* C17: a model definition with a formula term that names no species of the
\* definition is not constructed: the construction fails.
C17_UnmatchedTermIsError ==
    (model.status # "none"
        /\ \E r \in DOMAIN written :
              \E t \in Range(written[r].lhs) \cup Range(written[r].rhs) :
                  t.name \notin Range(mdef.species)) =>
        model.status # "ok"

\* charge(s): the '+' of the name minus its '-', and -1 for the electron
Charge(name) ==
    IF name = << "e" >> THEN -1
    ELSE Cardinality({ i \in DOMAIN name : name[i] = "+" })
         - Cardinality({ i \in DOMAIN name : name[i] = "-" })

----------------------------------------------------------------------------
(* Claims about the masses of the species *)

\* the symbols of the chemical elements of ATOMIC_MASSES
Elements == DOMAIN ATOMIC_MASSES \ { << "e" >> }

\* s is a concatenation of Element[count] tokens, each a known element
\* followed by digits or by nothing
RECURSIVE IsFormula(_)
IsFormula(s) ==
    \/ s = << >>
    \/ \E el \in Elements :
          /\ MatchAt(s, el, 1)
          /\ (Len(el) = 1 => ~(Len(s) >= 2 /\ s[2] \in LowerCase))
          /\ IsFormula(SubSeq(s, Len(el) + 1 + DigitRun(s, Len(el) + 1), Len(s)))

\* the name, its charge markers and state suffixes stripped, is the electron
\* or a formula
WellFormedName(name) ==
    LET clean == StateSuffixRemoved(Without(name, { "+", "-" }))
    IN  clean = << "e" >> \/ (clean # << >> /\ IsFormula(clean))

\* C19: load_chemistry raises an error for every species without a given
\* mass whose name, its charge markers and state suffixes stripped, is not
\* entirely a concatenation of Element[count] tokens of known elements,
\* and no species it loads is given a mass of zero.
C19_UnparsableNameFailsLoudly ==
    (loaded.status # "none" /\ chem_entry.mass_amu = NoMass) =>
        /\ ~WellFormedName(chem_entry.name) => loaded.status = "ValueError"
        /\ loaded.status = "ok" => loaded.mass_amu > 0

----------------------------------------------------------------------------
(* Claims about the ionization-only case *)

\* the positions of A, A+ and e in the state vector
IdxA == SpeciesIndex(species, << "A" >>)
IdxIon == SpeciesIndex(species, << "A", "+" >>)
IdxE == SpeciesIndex(species, << "e" >>)

\* C20: in the ionization-only case e + A -> A+ + 2e with a constant
\* non-negative rate coefficient, every evaluation returns d[A]/dt <= 0 and
\* d[A+]/dt = d[e]/dt = -d[A]/dt >= 0; over a solver step [A] does not
\* increase, [A+] and e increase by the same amount, and [A+] - e is unchanged.
C20_IonizationBalance ==
    sol_dy # << >> =>
        /\ sol_dy[IdxA].k = "fin" /\ sol_dy[IdxA].v <= 0
        /\ sol_dy[IdxIon] = sol_dy[IdxE]
        /\ sol_dy[IdxIon] = FNeg(sol_dy[IdxA])
        /\ sol_dy[IdxIon].v >= 0
        /\ sol_y[IdxA] <= sol_prev[IdxA]
        /\ sol_y[IdxIon] >= sol_prev[IdxIon]
        /\ sol_y[IdxIon] - sol_prev[IdxIon] = sol_y[IdxE] - sol_prev[IdxE]
        /\ sol_y[IdxIon] - sol_y[IdxE] = sol_prev[IdxIon] - sol_prev[IdxE]

\* a solver step with a positive rate was taken from a state of positive
\* densities: A went down, the ions and the electrons went up
C20_Witness ==
    /\ sol_dy # << >>
    /\ \A i \in { IdxA, IdxIon, IdxE } : sol_prev[i] > 0
    /\ sol_dy[IdxA].v < 0
    /\ sol_y[IdxA] < sol_prev[IdxA]
    /\ sol_y[IdxE] > sol_prev[IdxE]

----------------------------------------------------------------------------
(* Claims about the elastic-collision-only case *)

\* the species part dY_dt of a derivative vector
SpeciesPart(derivatives) == SubSeq(derivatives, 1, Len(derivatives) - 1)

ZeroVector(n) == [i \in 1..n |-> Fin(0)]

\* the rate of the only reaction at the state last evaluated
OnlyRate == ReactionRate(model, 1, mdef.reactions[1].rate_coeff, Densities(sol_y))

----------------------------------------------------------------------------
(* Claims about run() *)

\* the partial pressure of the seed of one species: its density times kb
\* times its temperature, the electrons at the initial electron temperature
SeedPressure(name) ==
    initial_values.seeds[name]
        * (IF name = << "e" >> THEN Te_K_init(initial_values) ELSE Th_K)

\* the seeded species: those of the species list, other than the background
\* gas, that have a seed
SeededSpecies == { species[i] : i \in 2..Len(species) } \cap DOMAIN initial_values.seeds

RECURSIVE SumOfSeedPressures(_)
SumOfSeedPressures(names) ==
    IF names = {} THEN 0
    ELSE LET name == CHOOSE n \in names : TRUE
         IN  SeedPressure(name) + SumOfSeedPressures(names \ { name })

SeedsExceedPressure == SumOfSeedPressures(SeededSpecies) > p_Pa(initial_values)

\* C22: when the partial pressures of the seeded species sum to more than the
\* configured total pressure, run() fails with the error of
\* get_initial_conditions before the integration: _ode_system is never
\* evaluated, no EEDF backend is invoked, and results stays unset.
C22_ExcessPressureFailsBeforeIntegration ==
    (SeedsExceedPressure /\ run_pc # "new") =>
        /\ run_pc = "ValueError"
        /\ y0 = << >>
        /\ results = "None"
        /\ ret = NoRet /\ pc = "idle" /\ debug_step_counter = 0
        /\ invoked = << >> /\ last_run = NoRun /\ eedf_results = << >>

\* run() was called with seeds of more pressure than the total, and failed
C22_Witness ==
    /\ SeedsExceedPressure
    /\ "p" \in DOMAIN initial_values.settings
    /\ run_pc = "ValueError"

----------------------------------------------------------------------------
(* Claims about the flow terms *)

\* per species, the mass carried by a term of dY_dt
MassWeighted(terms) ==
    [i \in DOMAIN terms |-> Rat(terms[i].n * mass_i(species, i), terms[i].d)]

\* C23: with flow configured, in both flow modes and for every state, the
\* sum of the pumping sinks taken from the species equals the inflow source
\* added to the feedstock/inflow species.
\* (The throughput is counted in particles, or else in mass.)
C23_FlowConservesThroughput ==
    flow_sinks # << >> =>
        \/ RatEq(RatSum(flow_sinks), RatSum(flow_sources))
        \/ RatEq(RatSum(MassWeighted(flow_sinks)), RatSum(MassWeighted(flow_sources)))

----------------------------------------------------------------------------
(* Claims about build_model_definition *)

\* the species names, and the reaction entries, of the files in their order
RECURSIVE ListedNames(_)
ListedNames(files) ==
    IF files = << >> THEN << >>
    ELSE [i \in DOMAIN Head(files).species |-> Head(files).species[i].name]
         \o ListedNames(Tail(files))

RECURSIVE ListedEntries(_)
ListedEntries(files) ==
    IF files = << >> THEN << >> ELSE Head(files).reactions \o ListedEntries(Tail(files))

\* where a name occurs first in a list
FirstOccurrence(names, name) == SetMin({ i \in DOMAIN names : names[i] = name })

C27_EedfFlagCarried ==
    built.status = "ok" =>
        \A k \in DOMAIN built.reactions :
            LET entry == ListedEntries(chemistry_files)[k]
            IN  EntryGet(entry, "use_eedf", FALSE) =>
                    /\ EntryGet(built.reactions[k], "use_eedf", FALSE)
                    /\ EntryGet(built.reactions[k], "process", "") = entry.process

----------------------------------------------------------------------------
(* Claims about the rate tables of LokiBSolver *)

\* the table of the last call was built and cached by an earlier call: its
\* file existed, with the table in it, when the call began
BuiltAndCached == last_build.cached_before

----------------------------------------------------------------------------
(* Claims about the evaluation context *)

\* C26: for every state vector handed to _ode_system, entries that are zero
\* or negative included, every density of the evaluation context is at
\* least the floor and Te_eV is strictly positive and equal to 2/3 of the
\* (floored) energy density over the (floored) electron density of that
\* vector: it is computed anew from the state in each evaluation, never kept.
C26_ContextFlooredAndDerived ==
    params # NoParams =>
        /\ \A i \in DOMAIN params.densities :
                /\ params.densities[i] >= Floor
                /\ params.densities[i] >= sol_y[i]
        /\ params.Te_eV.n > 0 /\ params.Te_eV.d > 0
        /\ LET energy == IF sol_y[Len(sol_y)] > Floor THEN sol_y[Len(sol_y)] ELSE Floor
               electrons == IF sol_y[IdxE] > Floor THEN sol_y[IdxE] ELSE Floor
           IN  RatEq(params.Te_eV, Rat(2 * energy, 3 * electrons))

\* an evaluation at a vector with a negative electron density and a negative
\* energy density
C26_Witness ==
    /\ params # NoParams
    /\ sol_y[IdxE] < 0 /\ sol_y[Len(sol_y)] < 0
    /\ params.densities[IdxE] = Floor
    /\ RatEq(params.Te_eV, Rat(2, 3))

----------------------------------------------------------------------------
(* Claims about the EEDF rates of the evaluations *)

\* every cached timestamp is later than t, beyond the tolerance
OnlyLaterCached(t) ==
    /\ DOMAIN eedf_results # {}
    /\ \A ts \in DOMAIN eedf_results : ts > t + Tol

\* C28: the rate coefficient of an EEDF-driven reaction at time t depends
\* only on the cache entries at or before t: an evaluation at a time t
\* earlier than every cached timestamp uses the rate coefficient that the
\* same evaluation uses with an empty cache (the value of the compiled rate
\* expression, whichever of its values that is).
C28_LaterEntriesDoNotMatter ==
    (pc = "idle" /\ ret.kind = "value" /\ OnlyLaterCached(frame.t)) =>
        \A r \in DOMAIN rate_src :
            reactions[r].use_eedf =>
                \E kexpr \in KInputs :
                    rate_src[r].k = RateCoefficient(ModelledCase, r, frame.t, << >>, kexpr[r]).k


\* the entries of the lookup table cached at ts that name the process
EntriesNaming(ts, process) ==
    { i \in DOMAIN eedf_results[ts].entries :
        process \in DOMAIN eedf_results[ts].entries[i].rate_coefficients }

\* C30: when the response cached for the timestamp an evaluation reads has
\* type lookup_table, an EEDF-driven reaction whose process identifier appears
\* in the entries of the table gets its rate coefficient from one of those
\* entries, not the value zero
C30_LookupTableSuppliesRates ==
    (pc = "idle" /\ ret.kind = "value") =>
        \A r \in DOMAIN rate_src :
            ( /\ reactions[r].use_eedf
              /\ rate_src[r].ts \in DOMAIN eedf_results
              /\ eedf_results[rate_src[r].ts].type = "lookup_table"
              /\ EntriesNaming(rate_src[r].ts, reactions[r].process) # {} )
            => \E i \in EntriesNaming(rate_src[r].ts, reactions[r].process) :
                  rate_src[r].k =
                      Fin(eedf_results[rate_src[r].ts].entries[i].rate_coefficients[reactions[r].process])


\* an evaluation begins and ends in this step with the declarations callable
\* failing with ValueError or ZeroDivisionError
DeclarationsFailInStep ==
    /\ pc = "idle" /\ pc' = "idle"
    /\ debug_step_counter' = debug_step_counter
    /\ frame'.decl \in { "ValueError", "ZeroDivisionError" }

\* the step puts an entry for ts into the cache
SolvedInStep(ts) == ts \notin DOMAIN eedf_results /\ ts \in DOMAIN eedf_results'

\* C29: an evaluation whose declarations callable fails with ValueError or
\* ZeroDivisionError leaves the EEDF cache unchanged and invokes no backend,
\* even at a time that matches a declared timestamp not yet cached; a
\* timestamp gets its cache entry only in an evaluation within the tolerance
\* of it whose declarations call succeeded
C29_FailedDeclarationsSolveNothing ==
    [][ /\ DeclarationsFailInStep =>
              (eedf_results' = eedf_results /\ invoked' = << >>)
        /\ \A ts \in Times :
              SolvedInStep(ts) =>
                  /\ pc = "subprocess"
                  /\ frame.decl = "ok"
                  /\ frame.ts = ts
                  /\ Abs(frame.t - ts) < Tol
                  /\ DOMAIN eedf_results' = DOMAIN eedf_results \cup { ts } ]_vars

\* the declarations callable failed in an evaluation at a time within the
\* tolerance of a declared timestamp that has no cache entry
C29_Witness ==
    /\ pc = "idle" /\ eedf_enabled
    /\ frame.decl \in { "ValueError", "ZeroDivisionError" }
    /\ invoked = << >>
    /\ \E i \in DOMAIN eedf_timestamps : Triggered(frame.t, eedf_timestamps[i], eedf_results)

====
